---- MODULE Spec2Model ----
(***************************************************************************)
(* Routify: multi-start genetic-algorithm transit planner.                 *)
(*                                                                         *)
(* Units.  Stations and request coordinates lie on the equator; a          *)
(* coordinate is its longitude expressed in hectometres (hm, 100 m), so    *)
(* the great-circle (haversine) distance of two coordinates is exactly the *)
(* absolute difference of the two numbers.  Times are in thousandths of a  *)
(* minute, fares in hundredths of a currency unit.  With these units every *)
(* quantity the code computes in double precision is an exact integer.     *)
(*                                                                         *)
(* A fitness value (a double in the code) is a record [cls, score]:        *)
(*   cls = -1 : the initial -1.0 of a result record                        *)
(*   cls =  0 : 0.0                                                        *)
(*   cls =  1 : 1.0 / score, score > epsilon                               *)
(*   cls =  2 : std::numeric_limits<double>::max()                         *)
(***************************************************************************)
EXTENDS Integers, Sequences, FiniteSets, TLC

\* ------------------------------------------------------------------------
\* Program constants
\* ------------------------------------------------------------------------
WALK_SPEED_KPH == 5
ASSUMED_PUBLIC_TRANSPORT_SPEED_KPH == 50
\* Graph::maxNearbyDistance = 0.6 km, in hm
maxNearbyDistance == 6
\* 0.5 km, in hm
MAX_WALKING_DISTANCE_SEGMENT == 5
\* 1.5 km, in hm
MAX_WALK_REPLACE_DISTANCE == 15
MAX_SEGMENT_LEGS == 2
maxSteps == 75
minMutationSteps == 5
maxMutationSteps == 20
\* 2.0 km, in hm
MAX_REASONABLE_WALK_KM == 20
\* 5.0 minutes
PREFER_WALK_THRESHOLD_MINS == 5
\* 1.5 km, in hm
MAX_FINAL_WALK_KM == 15
time_weight == 1
\* cost_weight = 0.1 = 1 / cost_weight_inverse
cost_weight_inverse == 10
transfer_penalty == 45
walk_penalty_factor == 2

\* ------------------------------------------------------------------------
\* Bounds of the model
\* ------------------------------------------------------------------------
\* largest population size a GA run is constructed with
MaxPopSize == 2
\* largest number of generations of one evolve call
MaxGenerations == 2
\* largest number of steps of a route handed to getFitness directly
MaxRouteLen == 3

\* ------------------------------------------------------------------------
\* Graph
\* ------------------------------------------------------------------------
Bus == "Bus"
Walk == "Walk"

\* Graph::TransportationLine(id, to, travelTime, price, type); travel time,
\* price and arrival times are read by no operation modelled here.
TransportationLine(id, to, type) == [id |-> id, to |-> to, type |-> type]

\* The transit network after ingestion: code -> Station{coordinates, lines}.
\* Lines created by ingestion keep the default type Bus; the last stop of a
\* trip keeps the default to = 0, which is no station.
FixtureGraph ==
  (1 :> [pos |-> 0,  lines |-> << TransportationLine("L1", 4, Bus),
                                  TransportationLine("L2", 2, Bus) >>]) @@
  (2 :> [pos |-> 3,  lines |-> << TransportationLine("L2", 4, Bus) >>]) @@
  (3 :> [pos |-> 5,  lines |-> << TransportationLine("L9", 0, Bus) >>]) @@
  (4 :> [pos |-> 9,  lines |-> << TransportationLine("L1", 5, Bus),
                                  TransportationLine("L2", 6, Bus) >>]) @@
  (5 :> [pos |-> 21, lines |-> << TransportationLine("L1", 8, Bus) >>]) @@
  (6 :> [pos |-> 24, lines |-> << TransportationLine("L1", 0, Bus) >>]) @@
  (7 :> [pos |-> 30, lines |-> << >>]) @@
  (8 :> [pos |-> 22, lines |-> << TransportationLine("L1", 6, Bus) >>]) @@
  (10 :> [pos |-> 40, lines |-> << TransportationLine("L5", 11, Bus) >>]) @@
  (11 :> [pos |-> 47, lines |-> << TransportationLine("L6", 12, Bus) >>]) @@
  (12 :> [pos |-> 43, lines |-> << TransportationLine("L6", 0, Bus) >>])

hasStation(G, id) == id \in DOMAIN G

getStationCount(G) == Cardinality(DOMAIN G)

getLinesFrom(G, nodeId) == IF nodeId \in DOMAIN G THEN G[nodeId].lines ELSE << >>

\* coordinates of the station object stored for a code (a default-constructed
\* Station has coordinates (0, 0))
StationPos(G, id) == IF id \in DOMAIN G THEN G[id].pos ELSE 0

\* Utilities::calculateHaversineDistance, on the equator, in hm
calculateHaversineDistance(c1, c2) == IF c1 >= c2 THEN c1 - c2 ELSE c2 - c1

\* Coordinates::isValid: longitude within [-180, 180] degrees (1 degree of
\* longitude on the equator is about 1112 hm)
CoordinatesIsValid(c) == c >= -(180 * 1112) /\ c <= 180 * 1112

\* ------------------------------------------------------------------------
\* Route
\* ------------------------------------------------------------------------
\* Route::VisitedStation(station, line, prevCode); the station object is
\* represented by its code.
VisitedStation(s, l, prevCode) == [station |-> s, line |-> l, prev |-> prevCode]

isPublicTransport(method) == method \in {"Bus", "Train", "LightTrain"}

\* minutes (in thousandths) to cover d hm at speed kph
TravelTime(d, kph) == (d * 6000) \div kph

calculateWalkTime(c1, c2) ==
  IF ~CoordinatesIsValid(c1) \/ ~CoordinatesIsValid(c2) THEN 0
  ELSE LET dist == calculateHaversineDistance(c1, c2)
       IN  IF dist < 0 THEN 0
           ELSE IF dist = 0 THEN 0
           ELSE TravelTime(dist, WALK_SPEED_KPH)

calculateEstimatedSegmentTime(G, prevPos, vs) ==
  LET distance == calculateHaversineDistance(prevPos, StationPos(G, vs.station))
  IN  IF vs.line.id = "Walk" /\ WALK_SPEED_KPH > 0
        THEN TravelTime(distance, WALK_SPEED_KPH)
      ELSE IF isPublicTransport(vs.line.type) /\ distance > 0
                /\ ASSUMED_PUBLIC_TRANSPORT_SPEED_KPH > 0
        THEN TravelTime(distance, ASSUMED_PUBLIC_TRANSPORT_SPEED_KPH)
      ELSE 0

RECURSIVE SumSegmentTimes(_, _, _, _)
SumSegmentTimes(G, stations, i, prevPos) ==
  IF i > Len(stations) THEN 0
  ELSE calculateEstimatedSegmentTime(G, prevPos, stations[i])
       + SumSegmentTimes(G, stations, i + 1, StationPos(G, stations[i].station))

getTotalTime(stations, G, routeStartId) ==
  IF stations = << >> THEN 0
  ELSE IF ~hasStation(G, routeStartId) THEN 0
  ELSE SumSegmentTimes(G, stations, 1, G[routeStartId].pos)

\* aerial distance (hm) added by the segment ending at step i (1-based)
CostSegmentDistance(G, stations, i) ==
  LET vs == stations[i]
      segmentStartId == IF vs.prev = -1 /\ i = 2 THEN stations[1].station ELSE vs.prev
      segmentEndId == vs.line.to
  IN  IF ~isPublicTransport(vs.line.type) THEN 0
      ELSE IF segmentStartId = -1 THEN 0
      ELSE IF segmentStartId # segmentEndId /\ segmentEndId # -1
              /\ hasStation(G, segmentStartId) /\ hasStation(G, segmentEndId)
        THEN calculateHaversineDistance(G[segmentStartId].pos, G[segmentEndId].pos)
      ELSE 0

RECURSIVE SumCostDistance(_, _, _)
SumCostDistance(G, stations, i) ==
  IF i > Len(stations) THEN 0
  ELSE CostSegmentDistance(G, stations, i) + SumCostDistance(G, stations, i + 1)

\* fare in hundredths; the distance bands are 15, 40, 120 and 225 km
getTotalCost(stations, G) ==
  IF stations = << >> THEN 0
  ELSE IF stations[1].station = -1 THEN 0
  ELSE LET usedPublicTransport ==
             \E i \in 2..Len(stations) : isPublicTransport(stations[i].line.type)
           total == SumCostDistance(G, stations, 2)
       IN  IF ~usedPublicTransport THEN 0
           ELSE IF total <= 150 THEN 600
           ELSE IF total <= 400 THEN 1250
           ELSE IF total <= 1200 THEN 1700
           ELSE IF total <= 2250 THEN 2850
           ELSE 8424

vehicleBoardings(stations) ==
  Cardinality({ i \in 2..Len(stations) :
      /\ isPublicTransport(stations[i].line.type)
      /\ \/ ~isPublicTransport(stations[i - 1].line.type)
         \/ stations[i].line.id # stations[i - 1].line.id })

\* a count that reports the boardings themselves
getTransferCountBoardings(stations) ==
  IF Len(stations) < 2 THEN 0 ELSE vehicleBoardings(stations)

getTransferCount(stations) ==
  IF Len(stations) < 2 THEN 0
  ELSE IF vehicleBoardings(stations) - 1 > 0 THEN vehicleBoardings(stations) - 1 ELSE 0

\* the transition check of isValid for step i >= 2 (1-based)
TransitionValid(G, stations, i) ==
  LET vs == stations[i]
      current_station_code == vs.line.to
      prev_station_code == vs.prev
  IN  /\ prev_station_code # -1
      /\ hasStation(G, current_station_code)
      /\ current_station_code = vs.station
      /\ \/ vs.line.id = "Start"
         \/ vs.line.id = "Walk"
         \/ /\ hasStation(G, prev_station_code)
            /\ \E k \in 1..Len(getLinesFrom(G, prev_station_code)) :
                 /\ getLinesFrom(G, prev_station_code)[k].id = vs.line.id
                 /\ getLinesFrom(G, prev_station_code)[k].to = current_station_code

isValid(stations, startId, destinationId, G) ==
  /\ stations # << >>
  /\ hasStation(G, startId)
  /\ stations[1].station = startId
  /\ stations[1].prev = -1
  /\ IF Len(stations) = 1 THEN startId = destinationId
     ELSE /\ stations[Len(stations)].line.to = destinationId
          /\ hasStation(G, destinationId)
          /\ stations[Len(stations)].station = destinationId
          /\ \A i \in 2..Len(stations) : TransitionValid(G, stations, i)

FitnessZero == [cls |-> 0, score |-> 0]
FitnessMax == [cls |-> 2, score |-> 0]
FitnessInitial == [cls |-> -1, score |-> 0]
FitnessInverse(score) == [cls |-> 1, score |-> score]

\* a > b on fitness values
FitnessGreater(a, b) ==
  \/ a.cls > b.cls
  \/ a.cls = 1 /\ b.cls = 1 /\ a.score < b.score

\* walk time of step i when it is a "Walk" step, else 0
InternalWalkTime(G, stations, startId, i) ==
  IF stations[i].line.id # "Walk" THEN 0
  ELSE LET prevCode == stations[i].prev
           from == IF i = 1 \/ prevCode = -1 THEN startId ELSE prevCode
       IN  IF ~hasStation(G, from) THEN 0
           ELSE calculateWalkTime(G[from].pos, StationPos(G, stations[i].station))

RECURSIVE SumInternalWalk(_, _, _, _)
SumInternalWalk(G, stations, startId, i) ==
  IF i > Len(stations) THEN 0
  ELSE InternalWalkTime(G, stations, startId, i)
       + SumInternalWalk(G, stations, startId, i + 1)

\* the score of getFitness (thousandths of a minute)
RouteScore(stations, startId, destinationId, G, userCoords, destCoords) ==
  LET initialWalkTime == calculateWalkTime(userCoords, StationPos(G, stations[1].station))
      lastSt == stations[Len(stations)].station
      finalWalkTime ==
        IF lastSt = destinationId THEN calculateWalkTime(StationPos(G, lastSt), destCoords)
        ELSE IF hasStation(G, destinationId)
          THEN calculateWalkTime(G[destinationId].pos, destCoords)
        ELSE 0
      totalStationToStationTime == getTotalTime(stations, G, startId)
      totalWalkTime == initialWalkTime + finalWalkTime
                       + SumInternalWalk(G, stations, startId, 1)
      totalCost == getTotalCost(stations, G)
      transfers == getTransferCount(stations)
      baseTime == initialWalkTime + totalStationToStationTime + finalWalkTime
  IN  time_weight * baseTime
      + (walk_penalty_factor - 1) * totalWalkTime
      + (totalCost * 10) \div cost_weight_inverse
      + transfers * transfer_penalty * 1000

\* a fitness that maps every score at or below epsilon to 0
getFitnessZeroFloor(stations, startId, destinationId, G, userCoords, destCoords) ==
  IF stations = << >> \/ ~isValid(stations, startId, destinationId, G) THEN FitnessZero
  ELSE LET score == RouteScore(stations, startId, destinationId, G, userCoords, destCoords)
       IN  IF score <= 0 THEN FitnessZero ELSE FitnessInverse(score)

getFitness(stations, startId, destinationId, G, userCoords, destCoords) ==
  IF stations = << >> \/ ~isValid(stations, startId, destinationId, G) THEN FitnessZero
  ELSE LET score == RouteScore(stations, startId, destinationId, G, userCoords, destCoords)
       IN  IF score <= 0 THEN FitnessMax ELSE FitnessInverse(score)

calculateFullJourneyTime(stations, G, routeStartId, routeEndId, userCoords, destCoords) ==
  LET initialWalkTime == IF hasStation(G, routeStartId)
                           THEN calculateWalkTime(userCoords, G[routeStartId].pos) ELSE 0
      stationToStationTime == getTotalTime(stations, G, routeStartId)
      finalWalkTime == IF hasStation(G, routeEndId)
                         THEN calculateWalkTime(G[routeEndId].pos, destCoords) ELSE 0
  IN  initialWalkTime + stationToStationTime + finalWalkTime

\* ------------------------------------------------------------------------
\* Route: guided path generation, mutation, crossover
\* ------------------------------------------------------------------------
\* a choice of lines that pays no attention to the stations visited
ValidLinesRevisit(G, currentCode, visitedCodesSegment) ==
  { k \in 1..Len(getLinesFrom(G, currentCode)) :
      hasStation(G, getLinesFrom(G, currentCode)[k].to) }

\* the outgoing lines generatePathSegment may choose at currentCode: every
\* candidate has a positive weight, so each can be drawn
ValidLines(G, currentCode, visitedCodesSegment) ==
  { k \in 1..Len(getLinesFrom(G, currentCode)) :
      /\ hasStation(G, getLinesFrom(G, currentCode)[k].to)
      /\ getLinesFrom(G, currentCode)[k].to \notin visitedCodesSegment }

\* one pass through the body of the loop of generatePathSegment: either the
\* function returns, or the loop goes on from the station of the line drawn
PathSegmentBody(G, currentCode, segmentEndId, visitedCodesSegment, steps, segment) ==
  IF ~hasStation(G, currentCode)
    THEN { [pc |-> "returned", ok |-> FALSE, segment |-> segment] }
  ELSE IF calculateHaversineDistance(G[currentCode].pos, G[segmentEndId].pos)
            < MAX_WALKING_DISTANCE_SEGMENT
    THEN { [pc |-> "returned", ok |-> TRUE,
            segment |-> Append(segment,
               VisitedStation(segmentEndId,
                              TransportationLine("Walk", segmentEndId, Walk),
                              currentCode))] }
  ELSE IF ValidLines(G, currentCode, visitedCodesSegment) = {}
    THEN { [pc |-> "returned", ok |-> FALSE, segment |-> segment] }
  ELSE { [pc |-> "loop",
          currentCode |-> getLinesFrom(G, currentCode)[k].to,
          visitedCodesSegment |->
            visitedCodesSegment \cup {getLinesFrom(G, currentCode)[k].to},
          steps |-> steps + 1,
          segment |-> Append(segment,
                          VisitedStation(getLinesFrom(G, currentCode)[k].to,
                                         getLinesFrom(G, currentCode)[k],
                                         currentCode))]
         : k \in ValidLines(G, currentCode, visitedCodesSegment) }

\* the loop of generatePathSegment: the set of (success, segment) results
RECURSIVE PathSegmentLoop(_, _, _, _, _, _)
PathSegmentLoop(G, currentCode, segmentEndId, visitedCodesSegment, steps, segment) ==
  IF currentCode = segmentEndId \/ steps >= maxSteps
    THEN { [ok |-> (currentCode = segmentEndId), segment |-> segment] }
  ELSE UNION { IF b.pc = "returned"
                 THEN { [ok |-> b.ok, segment |-> b.segment] }
                 ELSE PathSegmentLoop(G, b.currentCode, segmentEndId,
                                      b.visitedCodesSegment, b.steps, b.segment)
               : b \in PathSegmentBody(G, currentCode, segmentEndId,
                                       visitedCodesSegment, steps, segment) }

generatePathSegment(segmentStartId, segmentEndId, G) ==
  IF ~hasStation(G, segmentStartId) \/ ~hasStation(G, segmentEndId)
    THEN { [ok |-> FALSE, segment |-> << >>] }
  ELSE PathSegmentLoop(G, segmentStartId, segmentEndId, {segmentStartId}, 0, << >>)

\* mutation type 1: regenerate the tail from a random restart index
RegenerateTail(stations, destinationId, G) ==
  IF Len(stations) <= 2 THEN { stations }
  ELSE UNION { { IF res.ok /\ res.segment # << >>
                   THEN SubSeq(stations, 1, restart_index) \o res.segment
                   ELSE stations
                 : res \in generatePathSegment(stations[restart_index].station,
                                               destinationId, G) }
               : restart_index \in 1..(Len(stations) - 1) }

\* a Walk step that records no predecessor
WalkStepUnlinked(stations, p1, p2) ==
  VisitedStation(stations[p2].station,
                 TransportationLine("Walk", stations[p2].line.to, Walk), -1)

\* a Walk step whose line leads back to where the walk began
WalkStepBack(stations, p1, p2) ==
  VisitedStation(stations[p2].station,
                 TransportationLine("Walk", stations[p1].station, Walk),
                 stations[p1].prev)

\* the Walk step that replaces the steps after position p1 up to position p2
\* (1-based positions; p1 = idx1 + 1, p2 = idx2 + 1)
WalkStep(stations, p1, p2) ==
  VisitedStation(stations[p2].station,
                 TransportationLine("Walk", stations[p2].line.to, Walk),
                 stations[p1].prev)

\* mutation type 2: replace one or two legs by a walk
WalkReplacement(stations, G) ==
  LET max_start_idx == Len(stations) - 1 - MAX_SEGMENT_LEGS
  IN  IF max_start_idx <= 0 THEN { stations }
      ELSE { LET p1 == idx1 + 1
                 p2 == idx1 + legs + 1
                 walk_dist == calculateHaversineDistance(
                                StationPos(G, stations[p1].station),
                                StationPos(G, stations[p2].station))
             IN  IF walk_dist < MAX_WALK_REPLACE_DISTANCE
                   THEN SubSeq(stations, 1, p1) \o << WalkStep(stations, p1, p2) >>
                        \o SubSeq(stations, p2 + 1, Len(stations))
                   ELSE stations
             : idx1 \in 1..max_start_idx, legs \in 1..MAX_SEGMENT_LEGS }

\* Route::mutate: every route the call can leave behind.  mutationRate is in
\* percent; the first roll is uniform in [0, 1), so the route stays untouched
\* with positive probability iff the rate is below 100, and is mutated with
\* positive probability iff the rate is above 0.
mutate(stations, mutationRate, destinationId, G) ==
  (IF mutationRate < 100 THEN { stations } ELSE {})
  \cup
  (IF mutationRate > 0
     THEN RegenerateTail(stations, destinationId, G)
          \cup (IF Len(stations) > 3 THEN WalkReplacement(stations, G) ELSE {})
     ELSE {})

\* Population::crossover (Route::crossover has the same body)
commonIndices(visited1, visited2) ==
  { ij \in (2..(Len(visited1) - 1)) \X (2..(Len(visited2) - 1)) :
      visited1[ij[1]].station = visited2[ij[2]].station }

\* a crossover that repeats the common station in the child
crossoverRepeat(parent1, parent2) ==
  IF Len(parent1) <= 2 \/ Len(parent2) <= 2 THEN { parent1 }
  ELSE IF commonIndices(parent1, parent2) # {}
    THEN { SubSeq(parent1, 1, ij[1]) \o SubSeq(parent2, ij[2], Len(parent2))
           : ij \in commonIndices(parent1, parent2) }
  ELSE { parent1, parent2 }

\* a crossover that never falls back to the second parent
crossoverFirst(parent1, parent2) ==
  IF Len(parent1) <= 2 \/ Len(parent2) <= 2 THEN { parent1 }
  ELSE IF commonIndices(parent1, parent2) # {}
    THEN { SubSeq(parent1, 1, ij[1]) \o SubSeq(parent2, ij[2] + 1, Len(parent2))
           : ij \in commonIndices(parent1, parent2) }
  ELSE { parent1 }

crossover(parent1, parent2) ==
  IF Len(parent1) <= 2 \/ Len(parent2) <= 2 THEN { parent1 }
  ELSE IF commonIndices(parent1, parent2) # {}
    THEN { SubSeq(parent1, 1, ij[1]) \o SubSeq(parent2, ij[2] + 1, Len(parent2))
           : ij \in commonIndices(parent1, parent2) }
  ELSE { parent1, parent2 }

\* ------------------------------------------------------------------------
\* Population: BFS seed
\* ------------------------------------------------------------------------
\* a lookup that never finds the line and hands out the dummy line
findLineInGraphMiss(G, fromCode, lineId, lineTo) ==
  [line |-> TransportationLine("Error", 0, Bus), wrote |-> TRUE]

\* findLineInGraph: the line found, or the function-static dummy line, which
\* the function marks with id "Error" before returning it (wrote = TRUE)
findLineInGraph(G, fromCode, lineId, lineTo) ==
  LET lines == getLinesFrom(G, fromCode)
      hits == { k \in 1..Len(lines) : lines[k].id = lineId /\ lines[k].to = lineTo }
  IN  IF hits # {}
        THEN [line |-> lines[CHOOSE k \in hits : \A m \in hits : k <= m], wrote |-> FALSE]
        ELSE [line |-> TransportationLine("Error", 0, Bus), wrote |-> TRUE]

BfsNode(code, parent, lineId, lineTo) ==
  [stationCode |-> code, parentCode |-> parent,
   lineIdFromParent |-> lineId, lineToFromParent |-> lineTo]

\* an expansion that records the latest station a line was seen from
RECURSIVE BfsExpandLatest(_, _, _, _, _)
BfsExpandLatest(G, currentCode, k, q, visitedInfo) ==
  IF k > Len(getLinesFrom(G, currentCode)) THEN [q |-> q, visitedInfo |-> visitedInfo]
  ELSE LET line == getLinesFrom(G, currentCode)[k]
           nextCode == line.to
           node == BfsNode(nextCode, currentCode, line.id, line.to)
       IN  IF ~hasStation(G, nextCode) \/ nextCode = currentCode
             THEN BfsExpandLatest(G, currentCode, k + 1, q, visitedInfo)
           ELSE IF nextCode \notin DOMAIN visitedInfo
             THEN BfsExpandLatest(G, currentCode, k + 1, Append(q, nextCode),
                                  visitedInfo @@ (nextCode :> node))
           ELSE IF visitedInfo[nextCode].parentCode = -1
             THEN BfsExpandLatest(G, currentCode, k + 1, q, visitedInfo)
           ELSE BfsExpandLatest(G, currentCode, k + 1, q,
                                [visitedInfo EXCEPT ![nextCode] = node])

\* the for loop over the outgoing lines of currentCode, from line k on
RECURSIVE BfsExpand(_, _, _, _, _)
BfsExpand(G, currentCode, k, q, visitedInfo) ==
  IF k > Len(getLinesFrom(G, currentCode)) THEN [q |-> q, visitedInfo |-> visitedInfo]
  ELSE LET line == getLinesFrom(G, currentCode)[k]
           nextCode == line.to
       IN  IF hasStation(G, nextCode) /\ nextCode \notin DOMAIN visitedInfo
             THEN BfsExpand(G, currentCode, k + 1, Append(q, nextCode),
                            visitedInfo @@
                              (nextCode :> BfsNode(nextCode, currentCode, line.id, line.to)))
             ELSE BfsExpand(G, currentCode, k + 1, q, visitedInfo)

\* the while loop over the queue: [found, visitedInfo]
RECURSIVE BfsSearch(_, _, _, _)
BfsSearch(G, endCode, q, visitedInfo) ==
  IF q = << >> THEN [found |-> FALSE, visitedInfo |-> visitedInfo]
  ELSE IF Head(q) = endCode THEN [found |-> TRUE, visitedInfo |-> visitedInfo]
  ELSE LET e == BfsExpand(G, Head(q), 1, Tail(q), visitedInfo)
       IN  BfsSearch(G, endCode, e.q, e.visitedInfo)

\* the step pushed for a node of the BFS tree; its predecessor code is the
\* node's parent code, -1 for the start node
BfsStep(stationCode, lineUsed, parentCode) ==
  VisitedStation(stationCode, lineUsed, parentCode)

\* path reconstruction: [path (reversed), wrote]; an empty path is a failure
RECURSIVE BfsReconstruct(_, _, _, _, _, _)
BfsReconstruct(G, startCode, visitedInfo, traceCode, reversed_path, wrote) ==
  IF traceCode = -1 THEN [path |-> reversed_path, wrote |-> wrote]
  ELSE IF traceCode \notin DOMAIN visitedInfo THEN [path |-> << >>, wrote |-> wrote]
  ELSE IF ~hasStation(G, traceCode) THEN [path |-> << >>, wrote |-> wrote]
  ELSE LET nodeInfo == visitedInfo[traceCode]
           lookup == IF nodeInfo.parentCode = -1
                       THEN [line |-> TransportationLine("Start", startCode, Walk),
                             wrote |-> FALSE]
                       ELSE findLineInGraph(G, nodeInfo.parentCode,
                                            nodeInfo.lineIdFromParent,
                                            nodeInfo.lineToFromParent)
           pushed == Append(reversed_path,
                            BfsStep(traceCode, lookup.line, nodeInfo.parentCode))
       IN  IF lookup.line.id = "Error" /\ nodeInfo.parentCode # -1
             THEN [path |-> << >>, wrote |-> wrote \/ lookup.wrote]
           ELSE IF Len(pushed) > getStationCount(G) * 2
             THEN [path |-> << >>, wrote |-> wrote \/ lookup.wrote]
           ELSE BfsReconstruct(G, startCode, visitedInfo, nodeInfo.parentCode,
                               pushed, wrote \/ lookup.wrote)

Reverse(s) == [i \in 1..Len(s) |-> s[Len(s) + 1 - i]]

\* findPathBFS: [path, wrote]; wrote tells whether the static dummy line of
\* findLineInGraph was written
findPathBFS(G, startCode, endCode) ==
  IF ~hasStation(G, startCode) \/ ~hasStation(G, endCode)
    THEN [path |-> << >>, wrote |-> FALSE]
  ELSE LET s == BfsSearch(G, endCode, << startCode >>,
                          (startCode :> BfsNode(startCode, -1, "Start", startCode)))
       IN  IF ~s.found THEN [path |-> << >>, wrote |-> FALSE]
           ELSE LET r == BfsReconstruct(G, startCode, s.visitedInfo, endCode, << >>, FALSE)
                IN  [path |-> Reverse(r.path), wrote |-> r.wrote]

\* ------------------------------------------------------------------------
\* Population
\* ------------------------------------------------------------------------
\* the routes one fill attempt can produce: baseRoute after n forced
\* mutations, n drawn from minMutationSteps..maxMutationSteps
RECURSIVE MutatedRoutes(_, _, _, _, _)
MutatedRoutes(R, n, acc, destinationId, G) ==
  LET acc2 == IF n >= minMutationSteps THEN acc \cup R ELSE acc
  IN  IF n = maxMutationSteps THEN acc2
      ELSE MutatedRoutes(UNION { mutate(r, 100, destinationId, G) : r \in R },
                         n + 1, acc2, destinationId, G)

\* one iteration of the fill loop on every route vector of S
FillAttempt(S, M, routesNeeded, startId, destinationId, G) ==
  UNION { IF Len(routes) >= routesNeeded THEN { routes }
          ELSE { IF isValid(m, startId, destinationId, G)
                   THEN Append(routes, m) ELSE routes : m \in M }
          : routes \in S }

\* the fill loop: the route vectors it can end with
RECURSIVE FillLoop(_, _, _, _, _, _, _, _)
FillLoop(S, M, safetyCounter, maxAttempts, routesNeeded, startId, destinationId, G) ==
  IF safetyCounter >= maxAttempts
       \/ \A routes \in S : Len(routes) >= routesNeeded
    THEN S
  ELSE FillLoop(FillAttempt(S, M, routesNeeded, startId, destinationId, G), M,
                safetyCounter + 1, maxAttempts, routesNeeded, startId, destinationId, G)

\* a constructor that skips the test of size
PopulationAnySize(size, startId, destinationId, G) ==
  IF ~hasStation(G, startId) \/ ~hasStation(G, destinationId)
    THEN { [threw |-> TRUE, what |-> "runtime_error", routes |-> << >>, wrote |-> FALSE] }
  ELSE LET bfs == findPathBFS(G, startId, destinationId)
           baseRoute == bfs.path
       IN  IF baseRoute = << >> \/ ~isValid(baseRoute, startId, destinationId, G)
             THEN { [threw |-> TRUE, what |-> "runtime_error", routes |-> << >>,
                     wrote |-> bfs.wrote] }
           ELSE { [threw |-> FALSE, what |-> "", routes |-> routes, wrote |-> bfs.wrote]
                  : routes \in FillLoop({ << baseRoute >> },
                                        MutatedRoutes({ baseRoute }, 0, {},
                                                      destinationId, G),
                                        0, size * 10, size,
                                        startId, destinationId, G) }

Threw(what, wrote) == [threw |-> TRUE, what |-> what, routes |-> << >>, wrote |-> wrote]

\* Population::Population: every outcome of the constructor, an exception
\* (threw) or the routes of the constructed population
Population(size, startId, destinationId, G) ==
  IF size <= 0 THEN { Threw("invalid_argument", FALSE) }
  ELSE IF ~hasStation(G, startId) \/ ~hasStation(G, destinationId)
    THEN { Threw("runtime_error", FALSE) }
  ELSE LET bfs == findPathBFS(G, startId, destinationId)
           baseRoute == bfs.path
       IN  IF baseRoute = << >> THEN { Threw("runtime_error", bfs.wrote) }
           ELSE IF ~isValid(baseRoute, startId, destinationId, G)
             THEN { Threw("runtime_error", bfs.wrote) }
           ELSE { [threw |-> FALSE, what |-> "", routes |-> routes, wrote |-> bfs.wrote]
                  : routes \in FillLoop({ << baseRoute >> },
                                        MutatedRoutes({ baseRoute }, 0, {},
                                                      destinationId, G),
                                        0, size * 10, size,
                                        startId, destinationId, G) }

IndexPermutations(n) ==
  { p \in [1..n -> 1..n] : \A i, j \in 1..n : i # j => p[i] # p[j] }

\* std::sort by descending fitness: every order it can leave (routes of equal
\* fitness end in an unspecified relative order)
SortedByFitness(routes, startId, destinationId, G, userCoords, destCoords) ==
  LET fit(r) == getFitness(r, startId, destinationId, G, userCoords, destCoords)
  IN  { [i \in 1..Len(routes) |-> routes[p[i]]] :
          p \in { q \in IndexPermutations(Len(routes)) :
                    \A i, j \in 1..Len(routes) :
                       i < j => ~FitnessGreater(fit(routes[q[j]]), fit(routes[q[i]])) } }

\* a selection that keeps the lower half, which for one route is nothing
keepCountFloor(current_size) == current_size \div 2

keepCount(current_size) ==
  IF (current_size + 1) \div 2 > 1 THEN (current_size + 1) \div 2 ELSE 1

\* a selection that truncates without sorting
performSelectionUnsorted(routes, startId, destinationId, G, userCoords, destCoords) ==
  IF routes = << >> THEN { routes }
  ELSE { IF keepCount(Len(routes)) < Len(routes)
           THEN SubSeq(routes, 1, keepCount(Len(routes))) ELSE routes }

performSelection(routes, startId, destinationId, G, userCoords, destCoords) ==
  IF routes = << >> THEN { routes }
  ELSE { IF keepCount(Len(sorted)) < Len(sorted)
           THEN SubSeq(sorted, 1, keepCount(Len(sorted))) ELSE sorted
         : sorted \in SortedByFitness(routes, startId, destinationId, G,
                                      userCoords, destCoords) }

elitismCount(targetSize) == IF targetSize \div 10 > 1 THEN targetSize \div 10 ELSE 1

Min(a, b) == IF a <= b THEN a ELSE b

\* the children one pass of the breeding loop can push
Children(parents, mutationRate, destinationId, G) ==
  UNION { UNION { mutate(child, mutationRate, destinationId, G)
                  : child \in crossover(parents[i1 + 1],
                        parents[(IF Len(parents) > 1 /\ i1 = i2
                                   THEN (i1 + 1) % Len(parents) ELSE i2) + 1]) }
          : i1 \in 0..(Len(parents) - 1), i2 \in 0..(Len(parents) - 1) }

\* a generation that keeps the elites and breeds nothing
ReproduceElitesOnly(survivors, targetSize, mutationRate, destinationId, G) ==
  { SubSeq(survivors, 1, Min(elitismCount(targetSize), Len(survivors))) }

\* a generation bred from the survivors with no elite copied
ReproduceWithoutElites(survivors, targetSize, mutationRate, destinationId, G) ==
  { bred : bred \in [1..targetSize -> Children(survivors, mutationRate, destinationId, G)] }

\* elitism and breeding of one generation, from the survivors of selection
Reproduce(survivors, targetSize, mutationRate, destinationId, G) ==
  LET actualElitismCount == Min(elitismCount(targetSize), Len(survivors))
      elites == SubSeq(survivors, 1, actualElitismCount)
      missing == IF targetSize > actualElitismCount
                   THEN targetSize - actualElitismCount ELSE 0
  IN  { elites \o bred :
          bred \in [1..missing -> Children(survivors, mutationRate, destinationId, G)] }

\* one iteration of the generation loop of Population::evolve
evolveGeneration(routes, targetSize, mutationRate, startId, destinationId, G, userCoords, destCoords) ==
  UNION { IF survivors = << >> THEN { survivors }
          ELSE Reproduce(survivors, targetSize, mutationRate, destinationId, G)
          : survivors \in performSelection(routes, startId, destinationId, G,
                                           userCoords, destCoords) }

\* std::max_element with the fitness comparator: the first route of maximal
\* fitness
getBestSolution(routes, startId, destinationId, G, userCoords, destCoords) ==
  LET fit(r) == getFitness(r, startId, destinationId, G, userCoords, destCoords)
      best == CHOOSE i \in 1..Len(routes) :
                /\ \A j \in 1..Len(routes) : ~FitnessGreater(fit(routes[j]), fit(routes[i]))
                /\ \A j \in 1..(i - 1) : FitnessGreater(fit(routes[i]), fit(routes[j]))
  IN  routes[best]

\* ------------------------------------------------------------------------
\* Request planner: station selection
\* ------------------------------------------------------------------------
\* the sequences that hold each station of S once, in ascending distance from
\* c: what std::sort by distance can leave (ties in an unspecified order)
SortedByDistance(G, S, c) ==
  { [i \in 1..Cardinality(S) |-> f[i]] :
      f \in { g \in [1..Cardinality(S) -> S] :
                /\ \A i, j \in 1..Cardinality(S) : i # j => g[i] # g[j]
                /\ \A i, j \in 1..Cardinality(S) :
                     i < j => calculateHaversineDistance(G[g[i]].pos, c)
                              <= calculateHaversineDistance(G[g[j]].pos, c) } }

\* Graph::getNearbyStations: the codes of the stations within
\* maxNearbyDistance, sorted by distance
getNearbyStations(G, userCoords) ==
  SortedByDistance(G,
     { id \in DOMAIN G :
         calculateHaversineDistance(G[id].pos, userCoords) <= maxNearbyDistance },
     userCoords)

InSeq(x, seq) == \E i \in 1..Len(seq) : seq[i] = x

\* a selection that takes the last station of the list
selectLastStation(G, center, allNearby) ==
  IF allNearby = << >> THEN -1 ELSE allNearby[Len(allNearby)]

\* first station of allNearby at minimal distance (strict "<" keeps the first)
selectClosestStation(G, center, allNearby) ==
  IF allNearby = << >> THEN -1
  ELSE allNearby[CHOOSE i \in 1..Len(allNearby) :
         /\ \A j \in 1..Len(allNearby) :
              calculateHaversineDistance(center, G[allNearby[i]].pos)
              <= calculateHaversineDistance(center, G[allNearby[j]].pos)
         /\ \A j \in 1..(i - 1) :
              calculateHaversineDistance(center, G[allNearby[i]].pos)
              < calculateHaversineDistance(center, G[allNearby[j]].pos)]

\* step 3 of selectRepresentativeStations: index of the unselected station
\* among positions 2..n-1 that is farthest from S1 (first of the farthest),
\* 0 if there is none
bestSkIndex(G, sorted, selected) ==
  LET cand == { i \in 2..(Len(sorted) - 1) : ~InSeq(sorted[i], selected) }
      d(i) == calculateHaversineDistance(G[sorted[1]].pos, G[sorted[i]].pos)
  IN  IF cand = {} THEN 0
      ELSE CHOOSE i \in cand : /\ \A j \in cand : d(j) <= d(i)
                               /\ \A j \in cand : j < i => d(j) < d(i)

\* a selection of the nearest stations only
selectNearest(G, sorted) ==
  IF Len(sorted) > 3 THEN SubSeq(sorted, 1, 3) ELSE sorted

\* the selection logic of selectRepresentativeStations on stationsWithDistance
\* after the sort
selectFromSorted(G, sorted) ==
  IF sorted = << >> THEN << >>
  ELSE LET n == Len(sorted)
           sel1 == << sorted[1] >>
           sel2 == IF n > 1 /\ ~InSeq(sorted[n], sel1) THEN Append(sel1, sorted[n]) ELSE sel1
           sel3 == IF n > 1 /\ Len(sel2) < 2 /\ ~InSeq(sorted[2], sel2)
                     THEN Append(sel2, sorted[2]) ELSE sel2
           k == bestSkIndex(G, sorted, sel3)
           sel4 == IF k # 0 THEN Append(sel3, sorted[k])
                   ELSE IF Len(sel3) < 3 /\ ~InSeq(sorted[2], sel3)
                     THEN Append(sel3, sorted[2])
                   ELSE sel3
       IN  IF n = 1 THEN sel1
           ELSE IF n < 3 \/ Len(sel3) >= 3 THEN sel3
           ELSE IF Len(sel4) > 3 THEN SubSeq(sel4, 1, 3)
           ELSE sel4

\* selectRepresentativeStations: sort by distance from the user, then select
selectRepresentativeStations(G, center, allNearby) ==
  IF allNearby = << >> THEN { << >> }
  ELSE { selectFromSorted(G, sorted) :
           sorted \in SortedByDistance(G, { allNearby[i] : i \in 1..Len(allNearby) },
                                       center) }

\* ------------------------------------------------------------------------
\* Request planner: reduce step and walk-versus-transit decision
\* ------------------------------------------------------------------------
BestRouteResult(route, fitness, startStationId, endStationId) ==
  [route |-> route, fitness |-> fitness,
   startStationId |-> startStationId, endStationId |-> endStationId]

\* a collect step that keeps the latest successful result
collectResultLatest(overallBest, currentResult) ==
  IF currentResult.success
    THEN BestRouteResult(currentResult.route, currentResult.fitness,
                         currentResult.startStationId, currentResult.endStationId)
    ELSE overallBest

\* a collect step that drops what it has when a task failed
collectResultFailFast(overallBest, currentResult) ==
  IF ~currentResult.success
    THEN BestRouteResult(<< >>, FitnessInitial, -1, -1)
  ELSE IF FitnessGreater(currentResult.fitness, overallBest.fitness)
    THEN BestRouteResult(currentResult.route, currentResult.fitness,
                         currentResult.startStationId, currentResult.endStationId)
  ELSE overallBest

\* the body of the collect loop for one task result
collectResult(overallBest, currentResult) ==
  IF currentResult.success /\ FitnessGreater(currentResult.fitness, overallBest.fitness)
    THEN BestRouteResult(currentResult.route, currentResult.fitness,
                         currentResult.startStationId, currentResult.endStationId)
    ELSE overallBest

\* the test that ends findBestRouteToDestination: does it return a result?
hasBestRoute(overallBest) ==
  FitnessGreater(overallBest.fitness, FitnessZero) /\ overallBest.startStationId # -1

Response(status, reason, error, warning, from, to) ==
  [status |-> status, reason |-> reason, error |-> error, warning |-> warning,
   from_station |-> from, to_station |-> to]

ErrorResponse(error) == Response("", "", error, FALSE, -1, -1)

DirectWalk(reason) == Response("Direct walk recommended", reason, "", FALSE, -1, -1)

formatRouteResponse(G, bestResult, warning) ==
  IF ~hasStation(G, bestResult.startStationId) \/ ~hasStation(G, bestResult.endStationId)
    THEN ErrorResponse("Internal error: Failed to lookup best station names")
    ELSE Response("Route found", "", "", warning,
                  bestResult.startStationId, bestResult.endStationId)

onlyWalkingInStationRoute(route) ==
  \A i \in 1..Len(route) : route[i].line.id = "Walk" \/ route[i].line.id = "Start"

directWalkTime(startCoords, endCoords) ==
  TravelTime(calculateHaversineDistance(startCoords, endCoords), WALK_SPEED_KPH)

\* a decision that reports "no route" whenever the search found none
walkVersusTransitNoFallback(G, found, bestResult, startCoords, endCoords) ==
  IF ~found
    THEN Response("No route found (and direct walk too long)", "", "", FALSE, -1, -1)
  ELSE IF onlyWalkingInStationRoute(bestResult.route)
          /\ calculateHaversineDistance(startCoords, endCoords) < MAX_REASONABLE_WALK_KM
    THEN DirectWalk("Route involved no public transport")
  ELSE IF ~onlyWalkingInStationRoute(bestResult.route)
          /\ directWalkTime(startCoords, endCoords)
               < calculateFullJourneyTime(bestResult.route, G, bestResult.startStationId,
                                          bestResult.endStationId, startCoords, endCoords)
                 + PREFER_WALK_THRESHOLD_MINS * 1000
          /\ calculateHaversineDistance(startCoords, endCoords) < MAX_REASONABLE_WALK_KM
    THEN DirectWalk("Direct walk is faster or comparable")
  ELSE formatRouteResponse(G, bestResult, FALSE)

\* a decision that prefers the walk only when it is strictly faster
walkVersusTransitStrict(G, found, bestResult, startCoords, endCoords) ==
  IF ~found
    THEN IF calculateHaversineDistance(startCoords, endCoords) < MAX_REASONABLE_WALK_KM
           THEN DirectWalk("No public transport route found")
           ELSE Response("No route found (and direct walk too long)", "", "",
                         FALSE, -1, -1)
  ELSE IF onlyWalkingInStationRoute(bestResult.route)
          /\ calculateHaversineDistance(startCoords, endCoords) < MAX_REASONABLE_WALK_KM
    THEN DirectWalk("Route involved no public transport")
  ELSE IF ~onlyWalkingInStationRoute(bestResult.route)
          /\ directWalkTime(startCoords, endCoords)
               < calculateFullJourneyTime(bestResult.route, G, bestResult.startStationId,
                                          bestResult.endStationId, startCoords, endCoords)
          /\ calculateHaversineDistance(startCoords, endCoords) < MAX_REASONABLE_WALK_KM
    THEN DirectWalk("Direct walk is faster or comparable")
  ELSE formatRouteResponse(G, bestResult, FALSE)

\* a decision without the walk-only rule, which compares times for every route
walkVersusTransitNoWalkRule(G, found, bestResult, startCoords, endCoords) ==
  IF ~found
    THEN IF calculateHaversineDistance(startCoords, endCoords) < MAX_REASONABLE_WALK_KM
           THEN DirectWalk("No public transport route found")
           ELSE Response("No route found (and direct walk too long)", "", "",
                         FALSE, -1, -1)
  ELSE IF /\ directWalkTime(startCoords, endCoords)
               < calculateFullJourneyTime(bestResult.route, G, bestResult.startStationId,
                                          bestResult.endStationId, startCoords, endCoords)
                 + PREFER_WALK_THRESHOLD_MINS * 1000
          /\ calculateHaversineDistance(startCoords, endCoords) < MAX_REASONABLE_WALK_KM
    THEN DirectWalk("Direct walk is faster or comparable")
  ELSE formatRouteResponse(G, bestResult, FALSE)

\* a decision that recommends the walk whatever its length
walkVersusTransitAnyDistance(G, found, bestResult, startCoords, endCoords) ==
  IF ~found
    THEN DirectWalk("No public transport route found")
  ELSE IF onlyWalkingInStationRoute(bestResult.route)
    THEN DirectWalk("Route involved no public transport")
  ELSE IF directWalkTime(startCoords, endCoords)
            < calculateFullJourneyTime(bestResult.route, G, bestResult.startStationId,
                                       bestResult.endStationId, startCoords, endCoords)
              + PREFER_WALK_THRESHOLD_MINS * 1000
    THEN DirectWalk("Direct walk is faster or comparable")
  ELSE formatRouteResponse(G, bestResult, FALSE)

\* step 6 of handleFindRouteCoordinates: the response for the reduce result
walkVersusTransit(G, found, bestResult, startCoords, endCoords) ==
  LET directWalkDistance == calculateHaversineDistance(startCoords, endCoords)
      totalStationRouteTime ==
        calculateFullJourneyTime(bestResult.route, G, bestResult.startStationId,
                                 bestResult.endStationId, startCoords, endCoords)
      onlyWalking == onlyWalkingInStationRoute(bestResult.route)
      finalWalkDist == IF hasStation(G, bestResult.endStationId)
                         THEN calculateHaversineDistance(G[bestResult.endStationId].pos,
                                                         endCoords)
                         ELSE 0
  IN  IF ~found
        THEN IF directWalkDistance < MAX_REASONABLE_WALK_KM
               THEN DirectWalk("No public transport route found")
               ELSE Response("No route found (and direct walk too long)", "", "",
                             FALSE, -1, -1)
      ELSE IF onlyWalking /\ directWalkDistance < MAX_REASONABLE_WALK_KM
        THEN DirectWalk("Route involved no public transport")
      ELSE IF ~onlyWalking
              /\ directWalkTime(startCoords, endCoords)
                   < totalStationRouteTime + PREFER_WALK_THRESHOLD_MINS * 1000
              /\ directWalkDistance < MAX_REASONABLE_WALK_KM
        THEN DirectWalk("Direct walk is faster or comparable")
      ELSE formatRouteResponse(G, bestResult, finalWalkDist > MAX_FINAL_WALK_KM)

\* ------------------------------------------------------------------------
\* State
\* ------------------------------------------------------------------------
VARIABLES
  graph,        \* RequestHandler::_graph, passed to every GA task by const reference
  dummyLine,    \* id of the function-static dummyLine of findLineInGraph
  taskPc,       \* per GA task: "idle", "launched", "seeded", "done"
  taskArgs,     \* per GA task: the arguments of runSingleGaTask
  taskRoutes,   \* per GA task: Population::_routes
  taskTarget,   \* per GA task: targetSize of the running evolve call
  taskGen,      \* per GA task: genIndex of the running evolve call
  taskResult,   \* per GA task: the GaTaskResult it returns
  completionOrder, \* the GA tasks in the order in which they returned
  request,      \* the message received on the accepted connection
  hrPc,         \* handleRequest: "none", "accepted", "launching", "collecting", "returned"
  response,     \* the JSON document handed to sendMessage
  sentCount,    \* number of sendMessage calls on the client socket
  socketOpen,   \* the client socket descriptor has not been closed
  selectedStartStations, \* output of selectRepresentativeStations
  closestEndStationId, \* code of the closest end station
  futures,      \* findBestRouteToDestination: the launched tasks, in launch order
  launchIdx,    \* position of the launch loop in selectedStartStations
  collectIdx,   \* position of the collect loop in futures
  overallBest,  \* findBestRouteToDestination: best result so far
  fnCall,       \* a direct call of one function: its name and arguments
  fnResult,     \* the value that call returned
  ingest        \* Graph::fetchAPIData: the two files and the position of the loops

gaVars == << taskPc, taskArgs, taskRoutes, taskTarget, taskGen, taskResult,
            completionOrder >>
sharedVars == << graph, dummyLine >>
planVars == << selectedStartStations, closestEndStationId, futures, launchIdx,
              collectIdx, overallBest >>
ioVars == << request, response, sentCount, socketOpen >>
reqVars == << request, hrPc, response, sentCount, socketOpen, selectedStartStations,
              closestEndStationId, futures, launchIdx, collectIdx, overallBest >>
vars == << graph, dummyLine, taskPc, taskArgs, taskRoutes, taskTarget, taskGen,
           taskResult, completionOrder, request, hrPc, response, sentCount, socketOpen,
           selectedStartStations, closestEndStationId, futures, launchIdx,
           collectIdx, overallBest, fnCall, fnResult, ingest >>

fnVars == << fnCall, fnResult, ingest >>

\* at most three start stations are selected, so at most three tasks exist
Tasks == 1..3

GaTaskResult(route, fitness, success, startStationId, endStationId) ==
  [route |-> route, fitness |-> fitness, success |-> success,
   startStationId |-> startStationId, endStationId |-> endStationId]

NoArgs == [populationSize |-> 0, startId |-> -1, endId |-> -1, generations |-> 0,
           mutationRate |-> 0, startCoords |-> 0, endCoords |-> 0]

\* ------------------------------------------------------------------------
\* RequestHandler::runSingleGaTask, one action per step of the task
\* ------------------------------------------------------------------------
\* Population pop(...): the constructor returns or throws; a throw is caught
\* by the task and ends it with success = false
TaskConstruct(t) ==
  /\ taskPc[t] = "launched"
  /\ \E out \in Population(taskArgs[t].populationSize, taskArgs[t].startId,
                           taskArgs[t].endId, graph) :
       /\ dummyLine' = IF out.wrote THEN "Error" ELSE dummyLine
       /\ IF out.threw
            THEN /\ taskPc' = [taskPc EXCEPT ![t] = "done"]
                 /\ taskResult' = [taskResult EXCEPT ![t] =
                        GaTaskResult(<< >>, FitnessInitial, FALSE,
                                     taskArgs[t].startId, taskArgs[t].endId)]
                 /\ completionOrder' = Append(completionOrder, t)
                 /\ UNCHANGED << taskRoutes, taskTarget, taskGen >>
            ELSE /\ taskPc' = [taskPc EXCEPT ![t] = "seeded"]
                 /\ taskRoutes' = [taskRoutes EXCEPT ![t] = out.routes]
                 /\ taskTarget' = [taskTarget EXCEPT ![t] = Len(out.routes)]
                 /\ taskGen' = [taskGen EXCEPT ![t] = 0]
                 /\ UNCHANGED << taskResult, completionOrder >>
  /\ UNCHANGED << graph, taskArgs, reqVars, fnVars >>

\* one generation of pop.evolve(generations, mutationRate)
TaskGeneration(t) ==
  /\ taskPc[t] = "seeded"
  /\ taskRoutes[t] # << >>
  /\ taskGen[t] < taskArgs[t].generations
  /\ \E next \in evolveGeneration(taskRoutes[t], taskTarget[t],
                                  taskArgs[t].mutationRate, taskArgs[t].startId,
                                  taskArgs[t].endId, graph,
                                  taskArgs[t].startCoords, taskArgs[t].endCoords) :
       /\ taskRoutes' = [taskRoutes EXCEPT ![t] = next]
       /\ taskGen' = [taskGen EXCEPT ![t] =
                        IF next = << >> THEN taskArgs[t].generations ELSE @ + 1]
  /\ UNCHANGED << graph, dummyLine, taskPc, taskArgs, taskTarget, taskResult,
                  completionOrder, reqVars, fnVars >>

\* getBestSolution, getFitness and the validity test that fill the result
TaskFinish(t) ==
  /\ taskPc[t] = "seeded"
  /\ taskRoutes[t] = << >> \/ taskGen[t] >= taskArgs[t].generations
  /\ LET a == taskArgs[t]
         pairBestRoute == getBestSolution(taskRoutes[t], a.startId, a.endId, graph,
                                          a.startCoords, a.endCoords)
         fitness == getFitness(pairBestRoute, a.startId, a.endId, graph,
                               a.startCoords, a.endCoords)
     IN  taskResult' = [taskResult EXCEPT ![t] =
           IF taskRoutes[t] = << >>
             THEN GaTaskResult(<< >>, FitnessInitial, FALSE, a.startId, a.endId)
           ELSE IF isValid(pairBestRoute, a.startId, a.endId, graph)
                   /\ FitnessGreater(fitness, FitnessZero)
             THEN GaTaskResult(pairBestRoute, fitness, TRUE, a.startId, a.endId)
           ELSE GaTaskResult(<< >>, FitnessInitial, FALSE, a.startId, a.endId)]
  /\ taskPc' = [taskPc EXCEPT ![t] = "done"]
  /\ completionOrder' = Append(completionOrder, t)
  /\ UNCHANGED << graph, dummyLine, taskArgs, taskRoutes, taskTarget, taskGen,
                  reqVars, fnVars >>

\* ------------------------------------------------------------------------
\* RequestHandler::handleRequest
\* ------------------------------------------------------------------------
\* raw: "empty", "unparseable" or "json"; type: the "type" member (-1 when
\* absent); typed: FALSE when a member has a JSON type its accessor rejects
Request(raw, type, typed, stationId, hasCoords, startCoords, endCoords, populationSize, generations, mutationRate) ==
  [raw |-> raw, type |-> type, typed |-> typed, stationId |-> stationId,
   hasCoords |-> hasCoords, startCoords |-> startCoords, endCoords |-> endCoords,
   populationSize |-> populationSize, generations |-> generations,
   mutationRate |-> mutationRate]

NoRequest == Request("none", -1, TRUE, -1, FALSE, 0, 0, 0, 0, 0)

NoResponse == Response("", "", "", FALSE, -1, -1)

handleGetLines(G, req) ==
  IF req.stationId = -1 \/ ~hasStation(G, req.stationId)
    THEN ErrorResponse("Invalid or missing stationId")
  ELSE IF getLinesFrom(G, req.stationId) = << >>
    THEN Response("No lines found", "", "", FALSE, req.stationId, -1)
  ELSE Response("lines", "", "", FALSE, req.stationId, -1)

handleGetStationInfo(G, req) ==
  IF req.stationId = -1 \/ ~hasStation(G, req.stationId)
    THEN ErrorResponse("Invalid or missing stationId")
    ELSE Response("station", "", "", FALSE, req.stationId, -1)

\* the error text, "" when the input is accepted
extractAndValidateCoordinateInput(req) ==
  IF ~req.hasCoords THEN "Missing start or end coordinates (lat/long)"
  ELSE IF ~req.typed THEN "Invalid coordinate or parameter format"
  ELSE IF ~CoordinatesIsValid(req.startCoords) \/ ~CoordinatesIsValid(req.endCoords)
    THEN "Invalid coordinates"
  ELSE IF \/ req.populationSize <= 1
          \/ req.generations <= 0
          \/ req.mutationRate < 0
          \/ req.mutationRate > 100
    THEN "Invalid GA parameters (popSize>1, gen>0, 0<=mut<=1)"
  ELSE ""

\* the error text, "" when both coordinates have stations nearby
findNearbyStationsForRoute(G, req) ==
  IF getNearbyStations(G, req.startCoords) = { << >> }
    THEN "No stations found near start coordinates"
  ELSE IF getNearbyStations(G, req.endCoords) = { << >> }
    THEN "No stations found near end coordinates"
  ELSE ""

\* steps 1 and 2 of handleFindRouteCoordinates: the error that ends the
\* request before any station is selected, "" when the search goes ahead
routeInputError(G, req) ==
  IF extractAndValidateCoordinateInput(req) # ""
    THEN extractAndValidateCoordinateInput(req)
    ELSE findNearbyStationsForRoute(G, req)

\* the request reaches the GA search of handleFindRouteCoordinates
searchesRoute(G, req) ==
  req.raw = "json" /\ req.typed /\ req.type = 2 /\ routeInputError(G, req) = ""

\* the response of a non-empty request that is answered without a GA search
replyWithoutSearch(G, req) ==
  IF req.raw = "unparseable" THEN ErrorResponse("Invalid JSON format")
  ELSE IF req.type = 2 THEN ErrorResponse(routeInputError(G, req))
  ELSE IF ~req.typed THEN ErrorResponse("An unexpected server error occurred")
  ELSE IF req.type = 0 THEN handleGetLines(G, req)
  ELSE IF req.type = 1 THEN handleGetStationInfo(G, req)
  ELSE ErrorResponse("Invalid request type")

\* handleRequest on an empty message: the error is sent and the handler
\* returns; the Socket copy does not own the descriptor, so nothing closes it
HandleRequestEmpty ==
  /\ hrPc = "accepted"
  /\ request.raw = "empty"
  /\ response' = ErrorResponse("Empty request received")
  /\ sentCount' = sentCount + 1
  /\ hrPc' = "returned"
  /\ UNCHANGED << sharedVars, gaVars, planVars, request, socketOpen, fnVars >>

\* handleRequest on a message that needs no GA search: parse, dispatch, catch,
\* send and close
HandleRequestReply ==
  /\ hrPc = "accepted"
  /\ request.raw # "empty"
  /\ ~searchesRoute(graph, request)
  /\ response' = replyWithoutSearch(graph, request)
  /\ sentCount' = sentCount + 1
  /\ socketOpen' = FALSE
  /\ hrPc' = "returned"
  /\ UNCHANGED << sharedVars, gaVars, planVars, request, fnVars >>

\* handleFindRouteCoordinates steps 1 to 4 and the set-up of
\* findBestRouteToDestination
HandleFindRouteSelect ==
  /\ hrPc = "accepted"
  /\ searchesRoute(graph, request)
  /\ \E startStations \in getNearbyStations(graph, request.startCoords),
        endStations \in getNearbyStations(graph, request.endCoords) :
       /\ selectedStartStations'
            \in selectRepresentativeStations(graph, request.startCoords, startStations)
       /\ closestEndStationId' = selectClosestStation(graph, request.endCoords, endStations)
  /\ futures' = << >>
  /\ launchIdx' = 1
  /\ collectIdx' = 1
  /\ overallBest' = BestRouteResult(<< >>, FitnessInitial, -1, -1)
  /\ hrPc' = "launching"
  /\ UNCHANGED << sharedVars, gaVars, ioVars, fnVars >>

\* one iteration of the launch loop
LaunchTask ==
  /\ hrPc = "launching"
  /\ launchIdx <= Len(selectedStartStations)
  /\ LET startId == selectedStartStations[launchIdx]
         t == Len(futures) + 1
     IN  IF startId = closestEndStationId
           THEN UNCHANGED << futures, taskPc, taskArgs >>
           ELSE /\ futures' = Append(futures, t)
                /\ taskPc' = [taskPc EXCEPT ![t] = "launched"]
                /\ taskArgs' = [taskArgs EXCEPT ![t] =
                     [populationSize |-> request.populationSize,
                      startId |-> startId, endId |-> closestEndStationId,
                      generations |-> request.generations,
                      mutationRate |-> request.mutationRate,
                      startCoords |-> request.startCoords,
                      endCoords |-> request.endCoords]]
  /\ launchIdx' = launchIdx + 1
  /\ UNCHANGED << sharedVars, taskRoutes, taskTarget, taskGen, taskResult,
                  completionOrder, ioVars, hrPc, selectedStartStations,
                  closestEndStationId, collectIdx, overallBest, fnVars >>

\* a get() that does not wait for the task
taskCompletedAlways(t) == TRUE

\* futures[i].get() returns once the task has returned its result
taskCompleted(t) == taskPc[t] = "done"

\* one iteration of the collect loop
CollectResult ==
  /\ hrPc = "launching"
  /\ launchIdx > Len(selectedStartStations)
  /\ collectIdx <= Len(futures)
  /\ taskCompleted(futures[collectIdx])
  /\ overallBest' = collectResult(overallBest, taskResult[futures[collectIdx]])
  /\ collectIdx' = collectIdx + 1
  /\ UNCHANGED << sharedVars, gaVars, ioVars, hrPc, selectedStartStations,
                  closestEndStationId, futures, launchIdx, fnVars >>

\* the end of findBestRouteToDestination, step 6 of handleFindRouteCoordinates
\* and the send and close of handleRequest
HandleFindRouteReply ==
  /\ hrPc = "launching"
  /\ launchIdx > Len(selectedStartStations)
  /\ collectIdx > Len(futures)
  /\ response' = walkVersusTransit(graph,
                    futures # << >> /\ hasBestRoute(overallBest), overallBest,
                    request.startCoords, request.endCoords)
  /\ sentCount' = sentCount + 1
  /\ socketOpen' = FALSE
  /\ hrPc' = "returned"
  /\ UNCHANGED << sharedVars, gaVars, planVars, request, fnVars >>

\* ------------------------------------------------------------------------
\* SpecGA: one GA task run on arbitrary arguments
\* ------------------------------------------------------------------------
\* (start station, end station, user coordinate, destination coordinate)
GaEndpoints ==
  { << 1, 6, 2, 23 >>, << 2, 6, 2, 23 >>, << 3, 6, 2, 23 >>, << 5, 6, 21, 24 >>,
    << 6, 6, 24, 24 >>, << 6, 6, 23, 25 >>, << 1, 4, 2, 8 >>, << 9, 6, 2, 23 >>,
    << 4, 1, 8, 2 >> }

GaMutationRates == { 0, 30, 100 }

GaArgs ==
  { [populationSize |-> size, startId |-> e[1], endId |-> e[2],
     generations |-> gens, mutationRate |-> rate,
     startCoords |-> e[3], endCoords |-> e[4]]
    : size \in 0..MaxPopSize, e \in GaEndpoints, gens \in 0..MaxGenerations,
      rate \in GaMutationRates }

TasksIdle ==
  /\ taskPc = [t \in Tasks |-> "idle"]
  /\ taskArgs = [t \in Tasks |-> NoArgs]
  /\ taskRoutes = [t \in Tasks |-> << >>]
  /\ taskTarget = [t \in Tasks |-> 0]
  /\ taskGen = [t \in Tasks |-> 0]
  /\ taskResult = [t \in Tasks |-> GaTaskResult(<< >>, FitnessInitial, FALSE, -1, -1)]
  /\ completionOrder = << >>

NoCall == [fn |-> "none"]

\* the graph is in place; no file is being read
NoIngest == [pass |-> "loaded"]

PlannerIdle ==
  /\ selectedStartStations = << >>
  /\ closestEndStationId = -1
  /\ futures = << >>
  /\ launchIdx = 1
  /\ collectIdx = 1
  /\ overallBest = BestRouteResult(<< >>, FitnessInitial, -1, -1)
  /\ response = NoResponse
  /\ sentCount = 0
  /\ socketOpen = TRUE
  /\ fnCall = NoCall
  /\ fnResult = NoCall
  /\ ingest = NoIngest

InitGA ==
  /\ graph = FixtureGraph
  /\ dummyLine = ""
  /\ \E a \in GaArgs :
       /\ taskPc = [t \in Tasks |-> IF t = 1 THEN "launched" ELSE "idle"]
       /\ taskArgs = [t \in Tasks |-> IF t = 1 THEN a ELSE NoArgs]
  /\ taskRoutes = [t \in Tasks |-> << >>]
  /\ taskTarget = [t \in Tasks |-> 0]
  /\ taskGen = [t \in Tasks |-> 0]
  /\ taskResult = [t \in Tasks |-> GaTaskResult(<< >>, FitnessInitial, FALSE, -1, -1)]
  /\ completionOrder = << >>
  /\ request = NoRequest
  /\ hrPc = "none"
  /\ PlannerIdle

NextGA ==
  \/ \E t \in Tasks : TaskConstruct(t)
  \/ \E t \in Tasks : TaskGeneration(t)
  \/ \E t \in Tasks : TaskFinish(t)

SpecGA == InitGA /\ [][NextGA]_vars

\* ------------------------------------------------------------------------
\* Spec: one accepted connection, from receiveMessage to the handler's return
\* ------------------------------------------------------------------------
\* (user coordinate, destination coordinate) of the route requests
RouteCoordinates ==
  { << 2, 23 >>, << 2, 8 >>, << 7, 10 >>, << 5, 10 >>, << 33, 33 >>, << 33, 23 >>,
    << 36, 12 >>, << 2, 60 >>, << 60, 2 >>, << 2, 400000 >>, << 40, 43 >> }

\* (popSize, gen, mut) of the route requests: the smallest accepted
\* parameters and one rejected value of each
RouteGaParams ==
  { << 2, 1, 30 >>, << 1, 1, 30 >>, << 2, 0, 30 >>, << 2, 1, 130 >> }

Requests ==
  { Request("empty", -1, TRUE, -1, FALSE, 0, 0, 0, 0, 0),
    Request("unparseable", -1, TRUE, -1, FALSE, 0, 0, 0, 0, 0),
    Request("json", -1, TRUE, -1, FALSE, 0, 0, 0, 0, 0),
    Request("json", 7, TRUE, -1, FALSE, 0, 0, 0, 0, 0),
    Request("json", 2, TRUE, -1, FALSE, 0, 0, 0, 0, 0),
    Request("json", 2, FALSE, -1, TRUE, 0, 0, 0, 0, 0) }
  \cup { Request("json", type, typed, stationId, FALSE, 0, 0, 0, 0, 0) :
           type \in { 0, 1 }, typed \in BOOLEAN, stationId \in { -1, 1, 7, 9 } }
  \cup { Request("json", 2, TRUE, -1, TRUE, c[1], c[2], g[1], g[2], g[3]) :
           c \in RouteCoordinates, g \in RouteGaParams }

Init ==
  /\ graph = FixtureGraph
  /\ dummyLine = ""
  /\ TasksIdle
  /\ request \in Requests
  /\ hrPc = "accepted"
  /\ PlannerIdle

Next ==
  \/ HandleRequestEmpty
  \/ HandleRequestReply
  \/ HandleFindRouteSelect
  \/ LaunchTask
  \/ CollectResult
  \/ HandleFindRouteReply
  \/ \E t \in Tasks : TaskConstruct(t)
  \/ \E t \in Tasks : TaskGeneration(t)
  \/ \E t \in Tasks : TaskFinish(t)

Spec == Init /\ [][Next]_vars

\* ------------------------------------------------------------------------
\* SpecFitness: Route::getFitness called on one route
\* ------------------------------------------------------------------------
\* steps a route can hold: every edge of the graph with its true predecessor,
\* walk steps, an edge recorded with a predecessor it does not leave from and
\* a walk step without predecessor
FitnessSteps(G) ==
  UNION { { VisitedStation(G[p].lines[k].to, G[p].lines[k], p) :
              k \in 1..Len(G[p].lines) } : p \in DOMAIN G }
  \cup { VisitedStation(w[1], TransportationLine("Walk", w[1], Walk), w[2]) :
           w \in { << 4, 2 >>, << 6, 8 >>, << 6, 6 >>, << 6, -1 >> } }
  \cup { VisitedStation(4, TransportationLine("L1", 4, Bus), 2) }

StartStep(s) == VisitedStation(s, TransportationLine("Start", s, Walk), -1)

RECURSIVE StepSequences(_, _)
StepSequences(steps, n) ==
  IF n = 0 THEN { << >> }
  ELSE LET shorter == StepSequences(steps, n - 1)
       IN  shorter \cup { Append(q, st) : q \in { x \in shorter : Len(x) = n - 1 },
                                          st \in steps }

\* (startId, destinationId, userCoords, destCoords)
FitnessEndpoints ==
  { << 1, 6, 2, 23 >>, << 6, 6, 24, 24 >>, << 6, 6, 23, 25 >>, << 2, 4, 3, 9 >> }

\* the calls of getFitness on routes of at most n steps
FitnessCalls(n) ==
  { [fn |-> "getFitness", stations |-> stations, startId |-> e[1],
     destinationId |-> e[2], userCoords |-> e[3], destCoords |-> e[4]] :
      e \in FitnessEndpoints,
      stations \in { << >> } \cup
        { << StartStep(s) >> \o q :
            s \in { 1, 2, 6 },
            q \in StepSequences(FitnessSteps(FixtureGraph), n - 1) } }

InitFitness ==
  /\ graph = FixtureGraph
  /\ dummyLine = ""
  /\ TasksIdle
  /\ request = NoRequest
  /\ hrPc = "none"
  /\ selectedStartStations = << >>
  /\ closestEndStationId = -1
  /\ futures = << >>
  /\ launchIdx = 1
  /\ collectIdx = 1
  /\ overallBest = BestRouteResult(<< >>, FitnessInitial, -1, -1)
  /\ response = NoResponse
  /\ sentCount = 0
  /\ socketOpen = TRUE
  /\ fnCall \in FitnessCalls(MaxRouteLen)
  /\ fnResult = NoCall
  /\ ingest = NoIngest

CallGetFitness ==
  /\ fnCall.fn = "getFitness"
  /\ fnResult = NoCall
  /\ fnResult' = [fn |-> "getFitness",
                  value |-> getFitness(fnCall.stations, fnCall.startId,
                                       fnCall.destinationId, graph,
                                       fnCall.userCoords, fnCall.destCoords)]
  /\ UNCHANGED << sharedVars, gaVars, reqVars, fnCall, ingest >>

NextFitness == CallGetFitness

SpecFitness == InitFitness /\ [][NextFitness]_vars

\* ------------------------------------------------------------------------
\* Properties of Route::getFitness (specification SpecFitness)
\* ------------------------------------------------------------------------
FitnessCallValid ==
  /\ fnCall.stations # << >>
  /\ isValid(fnCall.stations, fnCall.startId, fnCall.destinationId, graph)

FitnessCallScore ==
  RouteScore(fnCall.stations, fnCall.startId, fnCall.destinationId, graph,
             fnCall.userCoords, fnCall.destCoords)

\* C2 (as the code has it): getFitness returns 0 for every route that is not
\* valid, the largest finite double for every valid route whose score is at
\* most epsilon, and 1/score, a positive value, for every valid route whose
\* score is above epsilon.
C2_FitnessValue ==
  fnResult # NoCall =>
    /\ ~FitnessCallValid => fnResult.value = FitnessZero
    /\ FitnessCallValid /\ FitnessCallScore <= 0 => fnResult.value = FitnessMax
    /\ FitnessCallValid /\ FitnessCallScore > 0 =>
         /\ fnResult.value = FitnessInverse(FitnessCallScore)
         /\ FitnessGreater(fnResult.value, FitnessZero)

\* the single-step route of a request whose start and destination are the
\* same station and whose user and destination stand at that station has
\* been scored
C2_Witness ==
  /\ fnResult # NoCall
  /\ Len(fnCall.stations) = 1
  /\ FitnessCallValid
  /\ FitnessCallScore <= 0

\* C2 (as stated): getFitness returns 0 for every route that is not valid and
\* for every valid route whose score is at most epsilon, and 1/score for every
\* valid route whose score is above epsilon.
C2_AsStated ==
  fnResult # NoCall =>
    /\ ~FitnessCallValid => fnResult.value = FitnessZero
    /\ FitnessCallValid /\ FitnessCallScore <= 0 => fnResult.value = FitnessZero
    /\ FitnessCallValid /\ FitnessCallScore > 0 =>
         /\ fnResult.value = FitnessInverse(FitnessCallScore)
         /\ FitnessGreater(fnResult.value, FitnessZero)

\* ------------------------------------------------------------------------
\* Properties of the population (specification SpecGA)
\* ------------------------------------------------------------------------
PopulationRoutes(t) == { taskRoutes[t][i] : i \in 1..Len(taskRoutes[t]) }

HasWalkStep(stations) == \E k \in 1..Len(stations) : stations[k].line.id = "Walk"

C7_SizePreserved ==
  [][\A t \in Tasks :
       (/\ taskPc[t] = "seeded"
        /\ taskPc'[t] = "seeded"
        /\ taskGen'[t] # taskGen[t]
        /\ Len(taskRoutes[t]) >= 1) => Len(taskRoutes'[t]) = Len(taskRoutes[t])]_vars

\* a population of two routes that has completed every generation asked for
C7_Witness ==
  \E t \in Tasks :
    /\ taskPc[t] = "seeded"
    /\ taskGen[t] = MaxGenerations
    /\ taskTarget[t] = 2
    /\ Len(taskRoutes[t]) = 2

\* ------------------------------------------------------------------------
\* Properties of a request (specification Spec)
\* ------------------------------------------------------------------------
Launched == 1..Len(futures)

SearchedRoute == searchesRoute(graph, request)

LaunchDone == hrPc \in { "launching", "returned" } /\ launchIdx > Len(selectedStartStations)

ReduceDone == LaunchDone /\ collectIdx > Len(futures)

Successful == { i \in Launched : taskResult[futures[i]].success }

ResultFitness(i) == taskResult[futures[i]].fitness

NoStationRoute(resp) ==
  \/ resp.status = "Direct walk recommended" /\ resp.reason = "No public transport route found"
  \/ resp.status = "No route found (and direct walk too long)"

\* C3: once every launched task has been collected, the reduce step holds
\* the successful result of highest fitness (the first launched among equals)
\* or, when no task succeeded, no result; this is fixed by the task results
\* alone, whatever the order in which the tasks completed.
C3_ReduceOrderIndependent ==
  ReduceDone /\ futures # << >> =>
    IF Successful = {}
      THEN ~hasBestRoute(overallBest)
      ELSE \E i \in Successful :
             /\ \A j \in Successful : ~FitnessGreater(ResultFitness(j), ResultFitness(i))
             /\ \A j \in Successful :
                  j < i => FitnessGreater(ResultFitness(i), ResultFitness(j))
             /\ FitnessGreater(ResultFitness(i), FitnessZero)
             /\ overallBest = BestRouteResult(taskResult[futures[i]].route,
                                              ResultFitness(i),
                                              taskResult[futures[i]].startStationId,
                                              taskResult[futures[i]].endStationId)

\* the reduce step has finished over two successful tasks of which the one
\* launched later completed first
C3_Witness ==
  /\ ReduceDone
  /\ \E i, j \in Successful :
       /\ i < j
       /\ \E a, b \in 1..Len(completionOrder) :
            a < b /\ completionOrder[a] = futures[j] /\ completionOrder[b] = futures[i]

TaskOwnState(t) == << taskRoutes[t], taskTarget[t], taskGen[t], taskResult[t] >>

\* C4: no step of a GA task writes the graph or the dummy line shared by all
\* callers of findLineInGraph, no step changes the population or result of
\* two tasks, and so the graph after the request is the graph before it.
C4_NoSharedWrites ==
  [][/\ graph' = graph
     /\ dummyLine' = dummyLine
     /\ \A t, u \in Tasks :
          t # u => TaskOwnState(t)' = TaskOwnState(t) \/ TaskOwnState(u)' = TaskOwnState(u)]_vars

\* two tasks of one request have both built their population from the BFS
\* seed and evolve side by side
C4_Witness ==
  \E t, u \in Tasks :
    /\ t # u
    /\ taskPc[t] = "seeded" /\ taskGen[t] >= 1
    /\ taskPc[u] = "seeded"
    /\ graph = FixtureGraph

\* C5: when the handler has answered a request that launched tasks, every
\* launched task has run to completion and has been collected, whether or not
\* a sibling failed, and the answer is "no station route" exactly when every
\* launched task failed.
C5_FailureIsolated ==
  hrPc = "returned" /\ futures # << >> =>
    /\ \A i \in Launched : taskPc[futures[i]] = "done"
    /\ collectIdx = Len(futures) + 1
    /\ NoStationRoute(response) <=> Successful = {}

\* a request is answered with a result although a task that was collected
\* after the successful one had failed
C5_Witness ==
  /\ hrPc = "returned"
  /\ ~NoStationRoute(response)
  /\ \E i, j \in Launched : i < j /\ i \in Successful /\ j \notin Successful

RECURSIVE LaunchPlan(_, _)
LaunchPlan(selected, endId) ==
  IF selected = << >> THEN << >>
  ELSE IF Head(selected) = endId THEN LaunchPlan(Tail(selected), endId)
  ELSE << Head(selected) >> \o LaunchPlan(Tail(selected), endId)

\* C6: at most 3 GA tasks are launched; once the launch loop has ended the
\* launched tasks are, in order, the selected start stations that differ from
\* the end station, each paired with the end station; and the response exists
\* only when every launched task has completed.
C6_LaunchAndJoin ==
  /\ Len(futures) <= 3
  /\ Len(selectedStartStations) <= 3
  /\ LaunchDone =>
       /\ [i \in Launched |-> taskArgs[futures[i]].startId]
            = LaunchPlan(selectedStartStations, closestEndStationId)
       /\ \A i \in Launched : taskArgs[futures[i]].endId = closestEndStationId
       /\ \A t \in Tasks : (\E i \in Launched : futures[i] = t) \/ taskPc[t] = "idle"
  /\ response # NoResponse => \A t \in Tasks : taskPc[t] \in { "idle", "done" }

\* a request whose three selected start stations all differ from the end
\* station has been answered
C6_Witness ==
  /\ hrPc = "returned"
  /\ response # NoResponse
  /\ Len(futures) = 3

\* C8 (as stated): when handleRequest has returned it has sent exactly one
\* response and the client socket is closed, whatever the request was.
C8_AsStated ==
  hrPc = "returned" => sentCount = 1 /\ ~socketOpen

\* C9: when no GA task yielded a route (none succeeded, or none was
\* launched), the response is "Direct walk recommended" if the direct walk is
\* shorter than 2 km (20 hm) and "No route found (and direct walk too long)"
\* otherwise.
C9_NoRouteFallback ==
  hrPc = "returned" /\ SearchedRoute /\ Successful = {} =>
    IF calculateHaversineDistance(request.startCoords, request.endCoords) < 20
      THEN response.status = "Direct walk recommended"
      ELSE response.status = "No route found (and direct walk too long)"

\* every launched task failed and the direct walk is shorter than 2 km
C9_Witness ==
  /\ hrPc = "returned"
  /\ SearchedRoute
  /\ futures # << >>
  /\ Successful = {}
  /\ response.status = "Direct walk recommended"

\* C10: when the best route uses public transport, the direct walk takes less
\* than the station route plus 5 minutes and is shorter than 2 km (20 hm), the
\* response is "Direct walk recommended" with reason "Direct walk is faster or
\* comparable".
C10_WalkComparable ==
  (/\ hrPc = "returned"
   /\ SearchedRoute
   /\ Successful # {}
   /\ ~onlyWalkingInStationRoute(overallBest.route)
   /\ calculateHaversineDistance(request.startCoords, request.endCoords) < 20
   /\ directWalkTime(request.startCoords, request.endCoords)
        < calculateFullJourneyTime(overallBest.route, graph, overallBest.startStationId,
                                   overallBest.endStationId, request.startCoords,
                                   request.endCoords) + 5000)
  => /\ response.status = "Direct walk recommended"
     /\ response.reason = "Direct walk is faster or comparable"

\* the walk is recommended although the station route is faster than the walk
C10_Witness ==
  /\ hrPc = "returned"
  /\ SearchedRoute
  /\ Successful # {}
  /\ ~onlyWalkingInStationRoute(overallBest.route)
  /\ response.reason = "Direct walk is faster or comparable"
  /\ calculateFullJourneyTime(overallBest.route, graph, overallBest.startStationId,
                              overallBest.endStationId, request.startCoords,
                              request.endCoords)
       < directWalkTime(request.startCoords, request.endCoords)

\* C11: when the best route holds only Walk and Start steps and the direct
\* walk is shorter than 2 km (20 hm), the response is "Direct walk
\* recommended"; the reason "Direct walk is faster or comparable", which
\* comes from the comparison of walk time and route time, is given only for
\* routes that use public transport.
C11_WalkOnlyRoute ==
  hrPc = "returned" /\ SearchedRoute /\ Successful # {} =>
    /\ (/\ onlyWalkingInStationRoute(overallBest.route)
        /\ calculateHaversineDistance(request.startCoords, request.endCoords) < 20)
         => response.status = "Direct walk recommended"
    /\ response.reason = "Direct walk is faster or comparable"
         => ~onlyWalkingInStationRoute(overallBest.route)

\* the best route of an answered request is a Start step followed by a Walk
\* step, and the walk is recommended because no public transport was used
C11_Witness ==
  /\ hrPc = "returned"
  /\ SearchedRoute
  /\ Successful # {}
  /\ Len(overallBest.route) >= 2
  /\ onlyWalkingInStationRoute(overallBest.route)
  /\ response.status = "Direct walk recommended"
  /\ response.reason = "Route involved no public transport"

\* ------------------------------------------------------------------------
\* Route::isValid and Route::getTransferCount applied to arbitrary step
\* sequences (specification SpecRoute)
\* ------------------------------------------------------------------------
\* the steps of FitnessSteps and walk steps whose recorded predecessor (99) is
\* no station of the graph
RouteSteps(G) ==
  FitnessSteps(G)
  \cup { VisitedStation(w, TransportationLine("Walk", w, Walk), 99) : w \in { 4, 6 } }

\* step sequences of at most n steps
RouteStations(n) ==
  { << >> } \cup
  { << StartStep(s) >> \o q :
      s \in { 1, 2, 6 },
      q \in StepSequences(RouteSteps(FixtureGraph), n - 1) }

\* (startId, destinationId)
RouteEndpoints == { << 1, 6 >>, << 6, 6 >>, << 2, 4 >>, << 1, 4 >>, << 9, 6 >> }

\* the routes of at most n steps that follow lines of the graph from a station
RECURSIVE GraphPaths(_, _)
GraphPaths(G, n) ==
  IF n = 1 THEN { << StartStep(s) >> : s \in DOMAIN G }
  ELSE LET shorter == GraphPaths(G, n - 1)
       IN  shorter \cup
           UNION { { Append(q, VisitedStation(l.to, l, q[Len(q)].station)) :
                       l \in { G[q[Len(q)].station].lines[k] :
                                 k \in { m \in 1..Len(G[q[Len(q)].station].lines) :
                                           hasStation(G, G[q[Len(q)].station].lines[m].to) } } }
                   : q \in { x \in shorter : Len(x) = n - 1 } }

RouteCalls(n) ==
  { [fn |-> "isValid", stations |-> stations, startId |-> e[1],
     destinationId |-> e[2]] : e \in RouteEndpoints, stations \in RouteStations(n) }
  \cup { [fn |-> "getTransferCount", stations |-> stations] :
           stations \in RouteStations(n) }
  \cup { [fn |-> "crossover", parent1 |-> parent1, parent2 |-> parent2] :
           parent1 \in GraphPaths(FixtureGraph, n),
           parent2 \in GraphPaths(FixtureGraph, n) }

\* no connection and no task exists and no call has returned
FnIdle ==
  /\ graph = FixtureGraph
  /\ dummyLine = ""
  /\ TasksIdle
  /\ request = NoRequest
  /\ hrPc = "none"
  /\ selectedStartStations = << >>
  /\ closestEndStationId = -1
  /\ futures = << >>
  /\ launchIdx = 1
  /\ collectIdx = 1
  /\ overallBest = BestRouteResult(<< >>, FitnessInitial, -1, -1)
  /\ response = NoResponse
  /\ sentCount = 0
  /\ socketOpen = TRUE
  /\ fnResult = NoCall
  /\ ingest = NoIngest

InitRoute ==
  /\ FnIdle
  /\ fnCall \in RouteCalls(MaxRouteLen)

CallIsValid ==
  /\ fnCall.fn = "isValid"
  /\ fnResult = NoCall
  /\ fnResult' = [fn |-> "isValid",
                  value |-> isValid(fnCall.stations, fnCall.startId,
                                    fnCall.destinationId, graph)]
  /\ UNCHANGED << sharedVars, gaVars, reqVars, fnCall, ingest >>

CallGetTransferCount ==
  /\ fnCall.fn = "getTransferCount"
  /\ fnResult = NoCall
  /\ fnResult' = [fn |-> "getTransferCount",
                  value |-> getTransferCount(fnCall.stations)]
  /\ UNCHANGED << sharedVars, gaVars, reqVars, fnCall, ingest >>

\* Route::crossover on const references to the parents: the child returned
\* and every child the random draws can give
CallCrossover ==
  /\ fnCall.fn = "crossover"
  /\ fnResult = NoCall
  /\ \E child \in crossover(fnCall.parent1, fnCall.parent2) :
       fnResult' = [fn |-> "crossover", value |-> child,
                    outcomes |-> crossover(fnCall.parent1, fnCall.parent2)]
  /\ UNCHANGED << sharedVars, gaVars, reqVars, fnCall, ingest >>

NextRoute == CallIsValid \/ CallGetTransferCount \/ CallCrossover

SpecRoute == InitRoute /\ [][NextRoute]_vars

\* invariants 1-6 of a valid route, with the predecessor of every step
\* i >= 1, Walk steps included, required to be a station of the graph
RouteInvariants(stations, startId, destinationId, G) ==
  /\ stations # << >>
  /\ hasStation(G, startId)
  /\ stations[1].station = startId
  /\ stations[1].prev = -1
  /\ Len(stations) = 1 => startId = destinationId
  /\ Len(stations) > 1 =>
       /\ stations[Len(stations)].line.to = destinationId
       /\ hasStation(G, destinationId)
       /\ stations[Len(stations)].station = destinationId
  /\ \A i \in 2..Len(stations) :
       /\ hasStation(G, stations[i].line.to)
       /\ stations[i].station = stations[i].line.to
       /\ hasStation(G, stations[i].prev)
       /\ stations[i].line.id \notin { "Start", "Walk" } =>
            \E k \in 1..Len(getLinesFrom(G, stations[i].prev)) :
              /\ getLinesFrom(G, stations[i].prev)[k].id = stations[i].line.id
              /\ getLinesFrom(G, stations[i].prev)[k].to = stations[i].line.to

\* C12 (as stated): isValid returns true exactly when invariants 1-6 hold,
\* the predecessor of a Walk step being a station of the graph among them.
C12_AsStated ==
  fnResult.fn = "isValid" =>
    fnResult.value = RouteInvariants(fnCall.stations, fnCall.startId,
                                     fnCall.destinationId, graph)

\* ------------------------------------------------------------------------
\* Construction of a Population (specification SpecGA)
\* ------------------------------------------------------------------------
\* the stations that a chain of lines leads to from the stations of reached
RECURSIVE ReachableFrom(_, _)
ReachableFrom(G, reached) ==
  LET more == reached \cup
                { c \in DOMAIN G : \E p \in reached :
                    \E k \in 1..Len(G[p].lines) : G[p].lines[k].to = c }
  IN  IF more = reached THEN reached ELSE ReachableFrom(G, more)

ConstructionFails(a, G) ==
  \/ a.populationSize <= 0
  \/ ~hasStation(G, a.startId)
  \/ ~hasStation(G, a.endId)
  \/ a.endId \notin ReachableFrom(G, { a.startId })

Constructed(t) == taskPc[t] \in { "seeded", "done" }

\* C13: the construction of a Population fails, leaving no population, when
\* size <= 0, when the start or the destination is not in the graph or when
\* no chain of lines leads from start to destination; in every other case it
\* succeeds and the route found by the breadth-first search is a member of
\* the constructed population.
C13_Construction ==
  \A t \in Tasks : Constructed(t) =>
    IF ConstructionFails(taskArgs[t], graph)
      THEN /\ taskRoutes[t] = << >>
           /\ taskPc[t] = "done"
           /\ ~taskResult[t].success
      ELSE /\ taskRoutes[t] # << >>
           /\ taskGen[t] = 0 =>
                \E i \in 1..Len(taskRoutes[t]) :
                  taskRoutes[t][i] = findPathBFS(graph, taskArgs[t].startId,
                                                 taskArgs[t].endId).path

\* a population of two routes was constructed, the first the route of the
\* search and the second a mutation of it
C13_Witness ==
  /\ taskPc[1] = "seeded"
  /\ taskGen[1] = 0
  /\ ~ConstructionFails(taskArgs[1], graph)
  /\ Len(taskRoutes[1]) = 2
  /\ taskRoutes[1][1] = findPathBFS(graph, taskArgs[1].startId, taskArgs[1].endId).path
  /\ taskRoutes[1][2] # taskRoutes[1][1]

\* ------------------------------------------------------------------------
\* Properties of Route::getTransferCount (specification SpecRoute)
\* ------------------------------------------------------------------------
\* boardings from step i on, counted step by step
RECURSIVE BoardingsFrom(_, _)
BoardingsFrom(stations, i) ==
  IF i > Len(stations) THEN 0
  ELSE (IF /\ stations[i].line.type # Walk
           /\ \/ stations[i - 1].line.type = Walk
              \/ stations[i].line.id # stations[i - 1].line.id
          THEN 1 ELSE 0)
       + BoardingsFrom(stations, i + 1)

AllPublic(stations) ==
  /\ Len(stations) >= 2
  /\ \A i \in 2..Len(stations) : stations[i].line.type # Walk

LineChanges(stations) ==
  Cardinality({ i \in 3..Len(stations) : stations[i].line.id # stations[i - 1].line.id })

\* C14: transfer_count is max(0, boardings - 1), a boarding being counted at
\* step i >= 1 exactly when the step's mode is public and the previous
\* step's mode is not public or its line_id differs; a route on one line
\* throughout has 0 transfers and a route with one line change has 1.
C14_TransferCount ==
  fnResult.fn = "getTransferCount" =>
    LET stations == fnCall.stations
        boardings == IF stations = << >> THEN 0 ELSE BoardingsFrom(stations, 2)
    IN  /\ fnResult.value = (IF boardings - 1 > 0 THEN boardings - 1 ELSE 0)
        /\ AllPublic(stations) /\ LineChanges(stations) = 0 => fnResult.value = 0
        /\ AllPublic(stations) /\ LineChanges(stations) = 1 => fnResult.value = 1

\* the count was taken of a route that changes line once
C14_Witness ==
  /\ fnResult.fn = "getTransferCount"
  /\ AllPublic(fnCall.stations)
  /\ LineChanges(fnCall.stations) = 1
  /\ fnResult.value = 1

\* ------------------------------------------------------------------------
\* Graph::fetchAPIData: GTFS ingestion (specification SpecIngest)
\* ------------------------------------------------------------------------
MaxStopRows == 2
MaxTimeRows == 2

\* a field of a row: a number, or text that is no number
Num(v) == [ok |-> TRUE, value |-> v]
NotANumber == [ok |-> FALSE, value |-> 0]

\* std::stoi and std::stod: the value, or std::invalid_argument
stoi(token) == [threw |-> ~token.ok, value |-> token.value]
stod(token) == [threw |-> ~token.ok, value |-> token.value]

\* values an int that was never written can be read as
IndeterminateInts == { -1, 0, 59 }

\* convertTimeToMinutes: h * 60 + m of "h:m:s"; on text that is no time the
\* first extraction stores 0 in h and m is read without having been written
convertTimeToMinutes(timeStr) ==
  IF timeStr.ok THEN { timeStr.h * 60 + timeStr.m }
  ELSE { 0 * 60 + m : m \in IndeterminateInts }

\* Graph::addStation: emplace keeps the station a code already has
addStation(G, code, coords) ==
  IF code \in DOMAIN G THEN G
  ELSE G @@ (code :> [pos |-> coords, lines |-> << >>])

\* one iteration of the loop of fetchGTFSStops
fetchGTFSStopsRow(G, tokens) ==
  IF tokens.size < 6 THEN [threw |-> FALSE, graph |-> G]
  ELSE IF stoi(tokens.stop_code).threw \/ stod(tokens.stop_lon).threw
    THEN [threw |-> TRUE, graph |-> G]
  ELSE [threw |-> FALSE,
        graph |-> addStation(G, stoi(tokens.stop_code).value,
                             stod(tokens.stop_lon).value)]

\* lastLine: the station whose vector it points into and the index there
NullLine == [station |-> -1, idx |-> 0]

\* a search that finds nothing
findNone(lines, id) == 0

\* std::find with TransportationLine::operator==: index of the first line of
\* that id, 0 for end()
findLine(lines, id) ==
  IF \E k \in 1..Len(lines) : lines[k].id = id
    THEN CHOOSE k \in 1..Len(lines) :
           /\ lines[k].id = id
           /\ \A j \in 1..(k - 1) : lines[j].id # id
  ELSE 0

\* TransportationLine newLine with id and one arrival time
NewLine(line_code, time) ==
  [id |-> line_code, to |-> 0, type |-> Bus, arrivalTimes |-> << time >>]

\* a continuation that looks at no trip id
continueLastLineAlways(G, id, stationCode, lastId, lastLine) ==
  IF lastLine # NullLine
    THEN [G EXCEPT ![lastLine.station].lines[lastLine.idx].to = stationCode]
    ELSE G

\* a row of the trip of the row before it continues that row's line: the
\* line's `to` becomes the station of this row
continueLastLine(G, id, stationCode, lastId, lastLine) ==
  IF id = lastId /\ lastLine # NullLine
    THEN [G EXCEPT ![lastLine.station].lines[lastLine.idx].to = stationCode]
    ELSE G

\* one iteration of the loop of fetchGTFSTransportationLines: every outcome
fetchGTFSLinesRow(G, tokens, lastId, lastLine) ==
  IF tokens.size < 4
    THEN { [threw |-> FALSE, graph |-> G, lastId |-> lastId, lastLine |-> lastLine] }
  ELSE IF stoi(tokens.trip_id).threw \/ stoi(tokens.station_code).threw
    THEN { [threw |-> TRUE, graph |-> G, lastId |-> lastId, lastLine |-> lastLine] }
  ELSE
    LET id == stoi(tokens.trip_id).value
        stationCode == stoi(tokens.station_code).value
        G1 == continueLastLine(G, id, stationCode, lastId, lastLine)
    IN  IF stationCode \notin DOMAIN G1
          THEN { [threw |-> TRUE, graph |-> G1, lastId |-> lastId,
                  lastLine |-> lastLine] }
        ELSE
          { LET lines == G1[stationCode].lines
                it == findLine(lines, tokens.line_code)
            IN  IF it # 0
                  THEN [threw |-> FALSE,
                        graph |-> [G1 EXCEPT ![stationCode].lines[it].arrivalTimes =
                                      Append(@, time)],
                        lastId |-> id,
                        lastLine |-> [station |-> stationCode, idx |-> it]]
                  ELSE [threw |-> FALSE,
                        graph |-> [G1 EXCEPT ![stationCode].lines =
                                      Append(@, NewLine(tokens.line_code, time))],
                        lastId |-> id,
                        lastLine |-> [station |-> stationCode, idx |-> Len(lines) + 1]]
            : time \in convertTimeToMinutes(tokens.time) }

\* rows of stops.txt: well-formed rows for the stations 1 and 2, a row of too
\* few fields, a row whose stop_code and a row whose longitude is no number
StopRows ==
  { [size |-> 6, stop_code |-> Num(1), stop_lon |-> Num(0)],
    [size |-> 6, stop_code |-> Num(2), stop_lon |-> Num(3)],
    [size |-> 3, stop_code |-> Num(1), stop_lon |-> Num(0)],
    [size |-> 6, stop_code |-> NotANumber, stop_lon |-> Num(0)],
    [size |-> 6, stop_code |-> Num(2), stop_lon |-> NotANumber] }

GoodTime == [ok |-> TRUE, h |-> 8, m |-> 30]
BadTime == [ok |-> FALSE, h |-> 0, m |-> 0]

\* rows of the stop-times file: well-formed rows of two lines, two trips and
\* two stations, and rows that are too short or hold text in a numeric field
TimeRows ==
  { [size |-> 4, line_code |-> l, trip_id |-> Num(t), time |-> GoodTime,
     station_code |-> Num(c)] : l \in { "L1", "L2" }, t \in { 1, 2 }, c \in { 1, 2 } }
  \cup
  { [size |-> 2, line_code |-> "L1", trip_id |-> Num(1), time |-> GoodTime,
     station_code |-> Num(1)],
    [size |-> 4, line_code |-> "L1", trip_id |-> NotANumber, time |-> GoodTime,
     station_code |-> Num(1)],
    [size |-> 4, line_code |-> "L1", trip_id |-> Num(1), time |-> BadTime,
     station_code |-> Num(1)],
    [size |-> 4, line_code |-> "L1", trip_id |-> Num(1), time |-> GoodTime,
     station_code |-> NotANumber] }

EmptyGraph == [c \in {} |-> 0]

InitIngest ==
  /\ graph = EmptyGraph
  /\ dummyLine = ""
  /\ TasksIdle
  /\ request = NoRequest
  /\ hrPc = "none"
  /\ selectedStartStations = << >>
  /\ closestEndStationId = -1
  /\ futures = << >>
  /\ launchIdx = 1
  /\ collectIdx = 1
  /\ overallBest = BestRouteResult(<< >>, FitnessInitial, -1, -1)
  /\ response = NoResponse
  /\ sentCount = 0
  /\ socketOpen = TRUE
  /\ fnCall = NoCall
  /\ fnResult = NoCall
  /\ \E stops \in StepSequences(StopRows, MaxStopRows),
        times \in StepSequences(TimeRows, MaxTimeRows) :
       ingest = [pass |-> "stops", status |-> "running", stops |-> stops,
                 times |-> times, pos |-> 1, lastId |-> -1, lastLine |-> NullLine]

\* fetchGTFSStops reads a row; an exception leaves the constructor of Graph
\* and, caught nowhere, ends the process
IngestStopsRow ==
  /\ ingest.pass = "stops"
  /\ ingest.status = "running"
  /\ ingest.pos <= Len(ingest.stops)
  /\ LET out == fetchGTFSStopsRow(graph, ingest.stops[ingest.pos])
     IN  /\ graph' = out.graph
         /\ ingest' = IF out.threw THEN [ingest EXCEPT !.status = "terminated"]
                      ELSE [ingest EXCEPT !.pos = @ + 1]
  /\ UNCHANGED << dummyLine, gaVars, reqVars, fnCall, fnResult >>

\* end of stops.txt: fetchGTFSTransportationLines starts
IngestStopsEnd ==
  /\ ingest.pass = "stops"
  /\ ingest.status = "running"
  /\ ingest.pos > Len(ingest.stops)
  /\ ingest' = [ingest EXCEPT !.pass = "lines", !.pos = 1]
  /\ UNCHANGED << sharedVars, gaVars, reqVars, fnCall, fnResult >>

IngestLinesRow ==
  /\ ingest.pass = "lines"
  /\ ingest.status = "running"
  /\ ingest.pos <= Len(ingest.times)
  /\ \E out \in fetchGTFSLinesRow(graph, ingest.times[ingest.pos], ingest.lastId,
                                  ingest.lastLine) :
       /\ graph' = out.graph
       /\ ingest' = IF out.threw THEN [ingest EXCEPT !.status = "terminated"]
                    ELSE [ingest EXCEPT !.pos = @ + 1, !.lastId = out.lastId,
                                        !.lastLine = out.lastLine]
  /\ UNCHANGED << dummyLine, gaVars, reqVars, fnCall, fnResult >>

\* end of the stop-times file: the graph is complete
IngestLinesEnd ==
  /\ ingest.pass = "lines"
  /\ ingest.status = "running"
  /\ ingest.pos > Len(ingest.times)
  /\ ingest' = [ingest EXCEPT !.pass = "loaded"]
  /\ UNCHANGED << sharedVars, gaVars, reqVars, fnCall, fnResult >>

NextIngest == IngestStopsRow \/ IngestStopsEnd \/ IngestLinesRow \/ IngestLinesEnd

SpecIngest == InitIngest /\ [][NextIngest]_vars

IngestionOver == ingest.pass = "loaded" \/ ingest.status = "terminated"

StopRowWellFormed(row) == row.size >= 6 /\ row.stop_code.ok /\ row.stop_lon.ok

StopRowUnparseable(row) == ~StopRowWellFormed(row)

TimeRowUnparseable(row) ==
  row.size < 4 \/ ~row.trip_id.ok \/ ~row.time.ok \/ ~row.station_code.ok

\* stations named by the well-formed rows of stops.txt
StationsOfFile(stops) ==
  { stops[i].stop_code.value : i \in { j \in 1..Len(stops) : StopRowWellFormed(stops[j]) } }

\* a well-formed row whose station stops.txt holds
TimeRowWellFormed(row, stops) ==
  /\ ~TimeRowUnparseable(row)
  /\ row.station_code.value \in StationsOfFile(stops)

\* C15 (as stated): once ingestion is over, every well-formed row that comes
\* after a row that cannot be parsed (too few fields, or text in a numeric
\* field) has been ingested into the graph: its station exists, and its
\* line exists at its station.
C15_AsStated ==
  IngestionOver =>
    /\ \A i, j \in 1..Len(ingest.stops) :
         /\ i < j
         /\ StopRowUnparseable(ingest.stops[i])
         /\ StopRowWellFormed(ingest.stops[j])
         => hasStation(graph, ingest.stops[j].stop_code.value)
    /\ \A i, j \in 1..Len(ingest.times) :
         /\ i < j
         /\ TimeRowUnparseable(ingest.times[i])
         /\ TimeRowWellFormed(ingest.times[j], ingest.stops)
         /\ \A k \in 1..Len(ingest.stops) : StopRowWellFormed(ingest.stops[k])
         => /\ hasStation(graph, ingest.times[j].station_code.value)
            /\ \E k \in 1..Len(graph[ingest.times[j].station_code.value].lines) :
                 graph[ingest.times[j].station_code.value].lines[k].id
                   = ingest.times[j].line_code

\* rows of the stop-times file that have been ingested: rows of at least
\* four fields that the loop has passed
IngestedRecords ==
  { i \in 1..Len(ingest.times) :
      /\ ingest.pass \in { "lines", "loaded" }
      /\ ingest.pass = "lines" => i < ingest.pos
      /\ ingest.times[i].size >= 4 }

RecordsOf(line_code, stationCode) ==
  { i \in IngestedRecords :
      /\ ingest.times[i].line_code = line_code
      /\ ingest.times[i].station_code.value = stationCode }

\* C16: whatever stop-times records have been ingested, every station has at
\* most one outgoing line per line_id, and the arrival-time list of that line
\* has one entry for each ingested record of that line_id at that station.
C16_OneLinePerId ==
  \A c \in DOMAIN graph :
    LET lines == graph[c].lines
    IN  /\ \A a, b \in 1..Len(lines) : a # b => lines[a].id # lines[b].id
        /\ \A k \in 1..Len(lines) :
             Len(lines[k].arrivalTimes) = Cardinality(RecordsOf(lines[k].id, c))
        /\ \A i \in IngestedRecords :
             ingest.times[i].station_code.value = c =>
               \E k \in 1..Len(lines) : lines[k].id = ingest.times[i].line_code

\* two records of one line at one station were ingested and its line holds
\* both arrival times
C16_Witness ==
  /\ ingest.pass = "loaded"
  /\ \E c \in DOMAIN graph : \E k \in 1..Len(graph[c].lines) :
       /\ Len(graph[c].lines[k].arrivalTimes) = 2
       /\ Cardinality(RecordsOf(graph[c].lines[k].id, c)) = 2

\* ------------------------------------------------------------------------
\* Selection of the start stations (specification Spec)
\* ------------------------------------------------------------------------
\* the candidates: the stations within maxNearbyDistance of the user
StartCandidates ==
  { id \in DOMAIN graph :
      calculateHaversineDistance(graph[id].pos, request.startCoords) <= maxNearbyDistance }

UserDistance(id) == calculateHaversineDistance(graph[id].pos, request.startCoords)

StationsSelected == SearchedRoute /\ hrPc \in { "launching", "collecting", "returned" }

\* C17: selectRepresentativeStations returns between 1 and 3 stations of
\* pairwise distinct codes, all of them candidates; one of them is a
\* candidate closest to the user and, when there is more than one candidate,
\* another one is a candidate farthest from the user.
C17_Representatives ==
  StationsSelected =>
    LET selected == selectedStartStations
    IN  /\ Len(selected) \in 1..3
        /\ \A i, j \in 1..Len(selected) : i # j => selected[i] # selected[j]
        /\ \A i \in 1..Len(selected) : selected[i] \in StartCandidates
        /\ \E i \in 1..Len(selected) :
             /\ \A c \in StartCandidates : UserDistance(selected[i]) <= UserDistance(c)
             /\ Cardinality(StartCandidates) > 1 =>
                  \E j \in 1..Len(selected) :
                    /\ j # i
                    /\ \A c \in StartCandidates :
                         UserDistance(c) <= UserDistance(selected[j])

\* three stations were selected among more than three candidates
C17_Witness ==
  /\ StationsSelected
  /\ Cardinality(StartCandidates) > 3
  /\ Len(selectedStartStations) = 3

\* ------------------------------------------------------------------------
\* Predecessor codes of the routes of a Population (specification SpecGA)
\* ------------------------------------------------------------------------
\* C18 (as stated): in every route a Population holds, each step i >= 1
\* records as predecessor the code of the station of step i-1, the Walk step
\* that walk replacement inserts included.
C18_AsStated ==
  \A t \in Tasks : \A r \in PopulationRoutes(t) :
    \A i \in 2..Len(r) : r[i].prev = r[i - 1].station

\* ------------------------------------------------------------------------
\* Properties of Route::crossover (specification SpecRoute)
\* ------------------------------------------------------------------------
\* pairs of interior positions of the parents that hold the same station
CommonInterior(p1, p2) ==
  { ij \in (1..Len(p1)) \X (1..Len(p2)) :
      /\ 1 < ij[1] /\ ij[1] < Len(p1)
      /\ 1 < ij[2] /\ ij[2] < Len(p2)
      /\ p1[ij[1]].station = p2[ij[2]].station }

Spliced(p1, p2, i, j) ==
  [k \in 1..(i + Len(p2) - j) |-> IF k <= i THEN p1[k] ELSE p2[j + k - i]]

\* C19: when the parents share a pair of interior positions (i, j) holding
\* the same station, crossover returns the steps of parent 1 up to i followed
\* by the steps of parent 2 after j, for one such pair, and the parents are
\* what they were before the call.
C19_CrossoverSplice ==
  [][ /\ fnResult'.fn = "crossover"
      /\ CommonInterior(fnCall.parent1, fnCall.parent2) # {}
      => /\ \E ij \in CommonInterior(fnCall.parent1, fnCall.parent2) :
              fnResult'.value = Spliced(fnCall.parent1, fnCall.parent2, ij[1], ij[2])
         /\ fnCall' = fnCall ]_vars

\* a child was spliced from two different parents at a common station
C19_Witness ==
  /\ fnResult.fn = "crossover"
  /\ CommonInterior(fnCall.parent1, fnCall.parent2) # {}
  /\ fnResult.value # fnCall.parent1
  /\ fnResult.value # fnCall.parent2

\* C20 (as the code has it): when the parents share no interior station,
\* crossover returns a copy of parent 1 if either parent has at most two
\* steps; otherwise it returns a copy of one of the two parents chosen at
\* random, and either parent can be the result.
C20_CrossoverFallback ==
  /\ fnResult.fn = "crossover"
  /\ CommonInterior(fnCall.parent1, fnCall.parent2) = {}
  => /\ fnResult.value \in fnResult.outcomes
     /\ fnResult.outcomes =
          IF Len(fnCall.parent1) <= 2 \/ Len(fnCall.parent2) <= 2
            THEN { fnCall.parent1 }
            ELSE { fnCall.parent1, fnCall.parent2 }

\* parents of three steps without a common interior station: the second
\* parent was returned
C20_Witness ==
  /\ fnResult.fn = "crossover"
  /\ CommonInterior(fnCall.parent1, fnCall.parent2) = {}
  /\ Len(fnCall.parent1) > 2
  /\ Len(fnCall.parent2) > 2
  /\ fnCall.parent1 # fnCall.parent2
  /\ fnResult.value = fnCall.parent2

\* C20 (as stated): when the parents share no interior station, whatever
\* their lengths, the result is one of the two parents and either parent can
\* be the result.
C20_AsStated ==
  /\ fnResult.fn = "crossover"
  /\ CommonInterior(fnCall.parent1, fnCall.parent2) = {}
  => /\ fnResult.value \in fnResult.outcomes
     /\ fnResult.outcomes = { fnCall.parent1, fnCall.parent2 }

\* ------------------------------------------------------------------------
\* The operators of the genetic algorithm applied to arbitrary arguments
\* (specification SpecOperators)
\* ------------------------------------------------------------------------
MaxSelectSize == 3

\* (startId, destinationId, userCoords, destCoords)
OperatorEndpoints == { << 1, 6, 2, 23 >>, << 1, 4, 2, 8 >> }

\* routes that leave the start station along lines of the graph for station
\* 4 or 6, and the routes that walk from it to station 4 or 6
RoutesFrom(startId) ==
  { r \in GraphPaths(FixtureGraph, MaxRouteLen) :
      r[1].station = startId /\ r[Len(r)].station \in { 4, 6 } }
  \cup { << StartStep(startId),
           VisitedStation(d, TransportationLine("Walk", d, Walk), startId) >> :
           d \in { 4, 6 } }

\* the calls of performSelection on populations of at most n routes
SelectionCalls(n) ==
  { [fn |-> "performSelection", routes |-> routes, startId |-> e[1],
     destinationId |-> e[2], userCoords |-> e[3], destCoords |-> e[4]] :
      e \in OperatorEndpoints,
      routes \in StepSequences(RoutesFrom(1), n) \ { << >> } }

SearchCalls ==
  { [fn |-> "findPathBFS", startCode |-> a, endCode |-> b] :
      a \in DOMAIN FixtureGraph \cup { 9 }, b \in DOMAIN FixtureGraph \cup { 9 } }

MAX_STEPS == 150

\* the smallest member of a non-empty set of indices
FirstOf(S) == CHOOSE k \in S : \A m \in S : k <= m

\* a choice of edge that takes the first line out of the station, whatever
\* its id
ChosenLineAnyId(G, lineId, currentStationId, previousStationId, segmentEndStationId) ==
  IF getLinesFrom(G, currentStationId) = << >> THEN 0 ELSE 1

\* the edge getStationsAlongLineSegment follows out of currentStationId, as
\* an index into the lines of the station, or 0 for none: the first edge of
\* the line that leads to the end station, else the first edge of the line
\* that does not lead back to the previous station
ChosenLine(G, lineId, currentStationId, previousStationId, segmentEndStationId) ==
  LET linesFromCurrent == getLinesFrom(G, currentStationId)
      direct == { k \in 1..Len(linesFromCurrent) :
                    /\ linesFromCurrent[k].id = lineId
                    /\ linesFromCurrent[k].to = segmentEndStationId }
      fallback == { k \in 1..Len(linesFromCurrent) :
                      /\ linesFromCurrent[k].id = lineId
                      /\ linesFromCurrent[k].to # previousStationId }
  IN  IF direct # {} THEN FirstOf(direct)
      ELSE IF fallback # {} THEN FirstOf(fallback)
      ELSE 0

\* one pass through the body of the loop of getStationsAlongLineSegment:
\* the next station is appended, or the trace stops (break)
AlongLineBody(G, lineId, segmentEndStationId, t) ==
  LET k == ChosenLine(G, lineId, t.currentStationId, t.previousStationId,
                      segmentEndStationId)
      nextStationId == getLinesFrom(G, t.currentStationId)[k].to
  IN  IF ~hasStation(G, t.currentStationId) \/ k = 0 \/ ~hasStation(G, nextStationId)
        THEN [t EXCEPT !.pc = "returned", !.stepCount = @ + 1]
        ELSE [t EXCEPT !.stepCount = @ + 1,
                       !.pathStations = Append(@, nextStationId),
                       !.previousStationId = t.currentStationId,
                       !.currentStationId = nextStationId]

\* a graph with the cycle 20 -> 21 -> 22 -> 20, an exit 22 -> 23 and a station
\* (24) that no line leads to
CycleGraph ==
  (20 :> [pos |-> 0, lines |-> << TransportationLine("L3", 21, Bus) >>]) @@
  (21 :> [pos |-> 10, lines |-> << TransportationLine("L3", 22, Bus) >>]) @@
  (22 :> [pos |-> 20, lines |-> << TransportationLine("L3", 20, Bus),
                                   TransportationLine("L4", 23, Bus) >>]) @@
  (23 :> [pos |-> 30, lines |-> << >>]) @@
  (24 :> [pos |-> 50, lines |-> << TransportationLine("L4", 20, Bus) >>])

\* one line through the stations 100, 101, ..., 180, a kilometre apart
ChainGraph ==
  [c \in 100..180 |->
     [pos |-> (c - 100) * 10, lines |-> << TransportationLine("L7", c + 1, Bus) >>]]

SegmentCalls ==
  { [fn |-> "generatePathSegment", G |-> FixtureGraph, segmentStartId |-> a,
     segmentEndId |-> b] :
      a \in DOMAIN FixtureGraph \cup { 9 }, b \in DOMAIN FixtureGraph \cup { 9 } }
  \cup { [fn |-> "generatePathSegment", G |-> CycleGraph, segmentStartId |-> a,
          segmentEndId |-> b] : a \in DOMAIN CycleGraph, b \in DOMAIN CycleGraph }
  \cup { [fn |-> "generatePathSegment", G |-> ChainGraph, segmentStartId |-> 100,
          segmentEndId |-> b] : b \in { 170, 175, 176, 180 } }

\* largest number of steps of a route handed to mutate or crossover
MaxOperandLen == 6

LongPaths == GraphPaths(FixtureGraph, MaxOperandLen)

\* (startId, destinationId) of the routes handed to mutate and crossover
ClosureEndpoints == { << 1, 6 >>, << 1, 4 >>, << 2, 6 >> }

\* valid routes between the endpoints: the paths along lines of the graph,
\* and what one mutation makes of them
ValidRoutes(e) ==
  LET paths == { r \in LongPaths : isValid(r, e[1], e[2], FixtureGraph) }
  IN  { r \in paths \cup UNION { mutate(q, 100, e[2], FixtureGraph) : q \in paths } :
          isValid(r, e[1], e[2], FixtureGraph) }

MutateCalls ==
  { [fn |-> "mutate", stations |-> r, mutationRate |-> rate, startId |-> e[1],
     destinationId |-> e[2]] :
      e \in ClosureEndpoints, r \in UNION { ValidRoutes(x) : x \in ClosureEndpoints },
      rate \in { 0, 30, 100 } }

BreedCalls ==
  UNION { { [fn |-> "crossover", parent1 |-> p1, parent2 |-> p2, startId |-> e[1],
             destinationId |-> e[2]] : p1 \in ValidRoutes(e), p2 \in ValidRoutes(e) }
          : e \in ClosureEndpoints }

AlongLineCalls ==
  { [fn |-> "getStationsAlongLineSegment", G |-> FixtureGraph, lineId |-> l,
     segmentStartStationId |-> a, segmentEndStationId |-> b] :
      l \in { "L1", "L2" }, a \in { 1, 2, 4, 9 }, b \in { 2, 4, 5, 6, 9 } }
  \cup { [fn |-> "getStationsAlongLineSegment", G |-> CycleGraph, lineId |-> l,
          segmentStartStationId |-> a, segmentEndStationId |-> b] :
            l \in { "L3", "L4" }, a \in { 20, 22, 24 }, b \in { 20, 22, 23, 24, 9 } }

OperatorCalls(n) ==
  SelectionCalls(n) \cup SearchCalls \cup SegmentCalls \cup AlongLineCalls
  \cup MutateCalls \cup BreedCalls

InitOperators ==
  /\ FnIdle
  /\ fnCall \in OperatorCalls(MaxSelectSize)

\* Population::performSelection on _routes: every order the sort can leave
CallPerformSelection ==
  /\ fnCall.fn = "performSelection"
  /\ fnResult = NoCall
  /\ \E kept \in performSelection(fnCall.routes, fnCall.startId, fnCall.destinationId,
                                  graph, fnCall.userCoords, fnCall.destCoords) :
       fnResult' = [fn |-> "performSelection", value |-> kept]
  /\ UNCHANGED << sharedVars, gaVars, reqVars, fnCall, ingest >>

\* findPathBFS as the constructor of Population calls it
CallFindPathBFS ==
  /\ fnCall.fn = "findPathBFS"
  /\ fnResult = NoCall
  /\ fnResult' = [fn |-> "findPathBFS",
                  value |-> findPathBFS(graph, fnCall.startCode, fnCall.endCode).path]
  /\ UNCHANGED << sharedVars, gaVars, reqVars, fnCall, ingest >>

\* Route::generatePathSegment on the graph of the call, up to its loop: it
\* returns false when an end of the segment is no station
CallGeneratePathSegment ==
  /\ fnCall.fn = "generatePathSegment"
  /\ fnResult = NoCall
  /\ fnResult' =
       IF ~hasStation(fnCall.G, fnCall.segmentStartId)
            \/ ~hasStation(fnCall.G, fnCall.segmentEndId)
         THEN [fn |-> "generatePathSegment", pc |-> "returned",
               value |-> [ok |-> FALSE, segment |-> << >>]]
         ELSE [fn |-> "generatePathSegment", pc |-> "loop",
               currentCode |-> fnCall.segmentStartId,
               visitedCodesSegment |-> { fnCall.segmentStartId },
               steps |-> 0, segment |-> << >>]
  /\ UNCHANGED << sharedVars, gaVars, reqVars, fnCall, ingest >>

\* one test of the loop condition of generatePathSegment, followed by one
\* pass through the body or by the return
GeneratePathSegmentStep ==
  /\ fnResult.fn = "generatePathSegment"
  /\ fnResult.pc = "loop"
  /\ IF fnResult.currentCode = fnCall.segmentEndId \/ fnResult.steps >= maxSteps
       THEN fnResult' =
              [fn |-> "generatePathSegment", pc |-> "returned",
               value |-> [ok |-> (fnResult.currentCode = fnCall.segmentEndId),
                          segment |-> fnResult.segment]]
       ELSE \E b \in PathSegmentBody(fnCall.G, fnResult.currentCode,
                                     fnCall.segmentEndId,
                                     fnResult.visitedCodesSegment,
                                     fnResult.steps, fnResult.segment) :
              fnResult' =
                IF b.pc = "returned"
                  THEN [fn |-> "generatePathSegment", pc |-> "returned",
                        value |-> [ok |-> b.ok, segment |-> b.segment]]
                  ELSE [fn |-> "generatePathSegment"] @@ b
  /\ UNCHANGED << sharedVars, gaVars, reqVars, fnCall, ingest >>

\* Graph::getStationsAlongLineSegment on the graph of the call, up to its
\* loop: an empty path when the start is no station, the start alone when it
\* is also the end
CallGetStationsAlongLineSegment ==
  /\ fnCall.fn = "getStationsAlongLineSegment"
  /\ fnResult = NoCall
  /\ fnResult' =
       [fn |-> "getStationsAlongLineSegment",
        pc |-> IF hasStation(fnCall.G, fnCall.segmentStartStationId)
                    /\ fnCall.segmentStartStationId # fnCall.segmentEndStationId
                 THEN "loop" ELSE "returned",
        pathStations |-> IF hasStation(fnCall.G, fnCall.segmentStartStationId)
                           THEN << fnCall.segmentStartStationId >> ELSE << >>,
        currentStationId |-> fnCall.segmentStartStationId,
        previousStationId |-> -1,
        stepCount |-> 0]
  /\ UNCHANGED << sharedVars, gaVars, reqVars, fnCall, ingest >>

\* one test of the loop condition of getStationsAlongLineSegment, followed
\* by one pass through the body or by the return
GetStationsAlongLineSegmentStep ==
  /\ fnResult.fn = "getStationsAlongLineSegment"
  /\ fnResult.pc = "loop"
  /\ fnResult' =
       IF fnResult.currentStationId # fnCall.segmentEndStationId
            /\ fnResult.stepCount < MAX_STEPS
         THEN AlongLineBody(fnCall.G, fnCall.lineId, fnCall.segmentEndStationId,
                            fnResult)
         ELSE [fnResult EXCEPT !.pc = "returned"]
  /\ UNCHANGED << sharedVars, gaVars, reqVars, fnCall, ingest >>

\* Route::mutate on a route: every route the random draws can leave
CallMutate ==
  /\ fnCall.fn = "mutate"
  /\ fnResult = NoCall
  /\ \E out \in mutate(fnCall.stations, fnCall.mutationRate, fnCall.destinationId,
                        graph) :
       fnResult' = [fn |-> "mutate", value |-> out]
  /\ UNCHANGED << sharedVars, gaVars, reqVars, fnCall, ingest >>

NextOperators ==
  \/ CallPerformSelection
  \/ CallFindPathBFS
  \/ CallGeneratePathSegment
  \/ GeneratePathSegmentStep
  \/ CallGetStationsAlongLineSegment
  \/ GetStationsAlongLineSegmentStep
  \/ CallMutate
  \/ CallCrossover

SpecOperators == InitOperators /\ [][NextOperators]_vars

CallFitness(r) ==
  getFitness(r, fnCall.startId, fnCall.destinationId, graph,
             fnCall.userCoords, fnCall.destCoords)

CeilHalf(n) == IF n % 2 = 0 THEN n \div 2 ELSE n \div 2 + 1

\* C21: performSelection on n >= 1 routes leaves exactly max(1, ceil(n/2))
\* routes in non-increasing order of fitness, these being routes of the
\* population, and every route it discards has a fitness less than or equal
\* to that of every route it keeps.
C21_Selection ==
  fnResult.fn = "performSelection" =>
    LET routes == fnCall.routes
        kept == fnResult.value
        n == Len(routes)
        k == IF CeilHalf(n) > 1 THEN CeilHalf(n) ELSE 1
    IN  /\ Len(kept) = k
        /\ \A i, j \in 1..k :
             i < j => ~FitnessGreater(CallFitness(kept[j]), CallFitness(kept[i]))
        /\ \E p \in IndexPermutations(n) :
             /\ \A i \in 1..k : kept[i] = routes[p[i]]
             /\ \A i \in 1..k : \A j \in (k + 1)..n :
                  ~FitnessGreater(CallFitness(routes[p[j]]), CallFitness(routes[p[i]]))

\* three routes of three different fitness values, the best one last: two
\* were kept, the best first
C21_Witness ==
  /\ fnResult.fn = "performSelection"
  /\ Len(fnCall.routes) = 3
  /\ FitnessGreater(CallFitness(fnCall.routes[3]), CallFitness(fnCall.routes[2]))
  /\ FitnessGreater(CallFitness(fnCall.routes[2]), CallFitness(fnCall.routes[1]))
  /\ fnResult.value = << fnCall.routes[3], fnCall.routes[2] >>

\* ------------------------------------------------------------------------
\* Properties of findPathBFS (specification SpecOperators)
\* ------------------------------------------------------------------------
\* stations one line away from a station of S
Successors(G, S) ==
  { c \in DOMAIN G : \E p \in S : \E k \in 1..Len(G[p].lines) : G[p].lines[k].to = c }

\* least number of lines that lead from a station of frontier to target,
\* d being the number already taken; -1 when none does
RECURSIVE HopsFrom(_, _, _, _, _)
HopsFrom(G, frontier, seen, target, d) ==
  IF target \in frontier THEN d
  ELSE IF Successors(G, frontier) \ seen = {} THEN -1
  ELSE HopsFrom(G, Successors(G, frontier) \ seen,
                seen \cup Successors(G, frontier), target, d + 1)

Hops(G, a, b) ==
  IF a \notin DOMAIN G \/ b \notin DOMAIN G THEN -1
  ELSE HopsFrom(G, { a }, { a }, b, 0)

\* C22: findPathBFS returns a non-empty path exactly when the end station can
\* be reached from the start station over lines that lead to stations of the
\* graph; the path follows such lines, has the least number of hops, begins
\* at the start station with the line "Start" and predecessor -1 and ends
\* at the end station.
C22_SeedSearch ==
  fnResult.fn = "findPathBFS" =>
    LET path == fnResult.value
        hops == Hops(graph, fnCall.startCode, fnCall.endCode)
    IN  /\ path # << >> <=> hops >= 0
        /\ path # << >> =>
             /\ Len(path) = hops + 1
             /\ path[1].station = fnCall.startCode
             /\ path[1].line.id = "Start"
             /\ path[1].prev = -1
             /\ path[Len(path)].station = fnCall.endCode
             /\ \A i \in 2..Len(path) :
                  \E k \in 1..Len(graph[path[i - 1].station].lines) :
                    /\ graph[path[i - 1].station].lines[k] = path[i].line
                    /\ path[i].line.to = path[i].station

\* the search returned a path of two hops between stations that a longer
\* chain of lines joins as well (1 to 6: by 4, or by 2 and 4)
C22_Witness ==
  /\ fnResult.fn = "findPathBFS"
  /\ fnCall.startCode = 1
  /\ fnCall.endCode = 6
  /\ Len(fnResult.value) = 3

\* ------------------------------------------------------------------------
\* Properties of Route::generatePathSegment (specification SpecOperators)
\* ------------------------------------------------------------------------
LineSteps(segment) == { i \in 1..Len(segment) : segment[i].line.id # "Walk" }

\* a call runs until it returns
SpecOperatorsFair ==
  /\ SpecOperators
  /\ WF_vars(CallGeneratePathSegment)
  /\ WF_vars(GeneratePathSegmentStep)
  /\ WF_vars(CallGetStationsAlongLineSegment)
  /\ WF_vars(GetStationsAlongLineSegmentStep)

\* the segment filled so far by the call of generatePathSegment in progress
SegmentSoFar == IF fnResult.pc = "loop" THEN fnResult.segment ELSE fnResult.value.segment

SegmentReturned == fnResult.fn = "generatePathSegment" /\ fnResult.pc = "returned"

\* the station the attempt stopped at
StoppedAt(segmentStartId, segment) ==
  IF segment = << >> THEN segmentStartId ELSE segment[Len(segment)].station

SegmentWithinBounds ==
  fnResult.fn = "generatePathSegment" =>
    /\ Cardinality(LineSteps(SegmentSoFar)) <= 75
    /\ \A i \in 1..Len(SegmentSoFar) :
         i \notin LineSteps(SegmentSoFar) => i = Len(SegmentSoFar)
    /\ \A i, j \in 1..Len(SegmentSoFar) :
         i # j => SegmentSoFar[i].station # SegmentSoFar[j].station
    /\ \A i \in 1..Len(SegmentSoFar) : SegmentSoFar[i].station # fnCall.segmentStartId
    /\ SegmentReturned =>
         (fnResult.value.ok <=>
            /\ hasStation(fnCall.G, fnCall.segmentStartId)
            /\ hasStation(fnCall.G, fnCall.segmentEndId)
            /\ StoppedAt(fnCall.segmentStartId, SegmentSoFar) = fnCall.segmentEndId)

\* C23: every call of generatePathSegment returns, on cyclic graphs too; its
\* segment holds at most 75 line steps and at most one Walk step, which is
\* the last step; the segment enters no station twice and never the station
\* it started from; and the value returned is true exactly when the attempt
\* stopped at the end station.
C23_SegmentTerminates ==
  /\ []SegmentWithinBounds
  /\ (fnCall.fn = "generatePathSegment") ~> SegmentReturned

\* an attempt gave up after 75 line steps, short of the end station
C23_Witness ==
  /\ SegmentReturned
  /\ ~fnResult.value.ok
  /\ Len(fnResult.value.segment) = 75
  /\ Cardinality(LineSteps(fnResult.value.segment)) = 75

\* ------------------------------------------------------------------------
\* Properties of Graph::getStationsAlongLineSegment (specification
\* SpecOperatorsFair)
\* ------------------------------------------------------------------------
AlongLineReturned == fnResult.fn = "getStationsAlongLineSegment" /\ fnResult.pc = "returned"

\* some edge of the line leads from station a to station b
JoinedBy(G, lineId, a, b) ==
  /\ a \in DOMAIN G
  /\ \E k \in 1..Len(G[a].lines) : G[a].lines[k].id = lineId /\ G[a].lines[k].to = b

PathAlongLine ==
  fnResult.fn = "getStationsAlongLineSegment" =>
    LET path == fnResult.pathStations
    IN  /\ fnResult.stepCount <= 150
        /\ Len(path) <= fnResult.stepCount + 1
        /\ ~hasStation(fnCall.G, fnCall.segmentStartStationId) => path = << >>
        /\ hasStation(fnCall.G, fnCall.segmentStartStationId) =>
             /\ path # << >>
             /\ path[1] = fnCall.segmentStartStationId
        /\ \A i \in 1..(Len(path) - 1) :
             JoinedBy(fnCall.G, fnCall.lineId, path[i], path[i + 1])
        /\ \A i \in 1..Len(path) :
             path[i] = fnCall.segmentEndStationId => i = Len(path)

\* C24: every call of getStationsAlongLineSegment returns, after at most 150
\* passes through its loop, on cyclic graphs too; the path is empty when the
\* start is no station; otherwise it begins with the start station, each
\* station is joined to the next by an outgoing edge of the given line, and
\* the end station, once reached, is the last station of the path.
C24_TraceTerminates ==
  /\ []PathAlongLine
  /\ (fnCall.fn = "getStationsAlongLineSegment") ~> AlongLineReturned

\* a trace went round the cycle until the limit of 150 steps stopped it
C24_Witness ==
  /\ AlongLineReturned
  /\ fnResult.stepCount = 150
  /\ Len(fnResult.pathStations) = 151
  /\ fnResult.currentStationId # fnCall.segmentEndStationId

\* ------------------------------------------------------------------------
\* The `to` of a line during ingestion (specification SpecIngest)
\* ------------------------------------------------------------------------
\* the rows before position pos that the loop did not skip
RecordsBefore(times, pos) == { j \in 1..(pos - 1) : times[j].size >= 4 }

\* the record before position pos, or 0 when there is none
PreviousRecord(times, pos) ==
  IF RecordsBefore(times, pos) = {} THEN 0
  ELSE CHOOSE j \in RecordsBefore(times, pos) : \A m \in RecordsBefore(times, pos) : m <= j

\* the row at the position of the loop is a record with numeric fields
RecordAtHand ==
  /\ ingest.pass = "lines"
  /\ ingest.status = "running"
  /\ ingest.pos <= Len(ingest.times)
  /\ ingest.times[ingest.pos].size >= 4
  /\ ingest.times[ingest.pos].trip_id.ok
  /\ ingest.times[ingest.pos].station_code.ok

\* the record at hand has the trip of the record before it
ContinuesTrip ==
  /\ PreviousRecord(ingest.times, ingest.pos) # 0
  /\ ingest.times[PreviousRecord(ingest.times, ingest.pos)].trip_id.value
       = ingest.times[ingest.pos].trip_id.value

\* station s and index k name the line of the record before the one at hand
IsPreviousLine(s, k) ==
  /\ s = ingest.times[PreviousRecord(ingest.times, ingest.pos)].station_code.value
  /\ graph[s].lines[k].id = ingest.times[PreviousRecord(ingest.times, ingest.pos)].line_code

ToAfterRecord ==
  RecordAtHand =>
    \A s \in DOMAIN graph : \A k \in 1..Len(graph[s].lines) :
      /\ s \in DOMAIN graph'
      /\ k <= Len(graph'[s].lines)
      /\ graph'[s].lines[k].to =
           IF ContinuesTrip /\ IsPreviousLine(s, k)
             THEN ingest.times[ingest.pos].station_code.value
             ELSE graph[s].lines[k].to

\* C25: a record of the trip of the record before it sets the `to` of that
\* record's line (the line of its line id at its station) to the station of
\* the new record and changes the `to` of no other line; a record of another
\* trip changes the `to` of no line the graph holds.
C25_ToOfPreviousLine == [][ToAfterRecord]_vars

\* the second record continued the trip of the first at another station, and
\* the line of the first record now leads there
C25_Witness ==
  /\ ingest.pass = "lines"
  /\ ingest.pos = 3
  /\ ingest.times[1].size >= 4
  /\ ingest.times[2].size >= 4
  /\ ingest.times[1].trip_id = ingest.times[2].trip_id
  /\ ingest.times[1].station_code.value # ingest.times[2].station_code.value
  /\ \E k \in 1..Len(graph[ingest.times[1].station_code.value].lines) :
       /\ graph[ingest.times[1].station_code.value].lines[k].id = ingest.times[1].line_code
       /\ graph[ingest.times[1].station_code.value].lines[k].to
            = ingest.times[2].station_code.value

\* ------------------------------------------------------------------------
\* The best fitness over the generations of one evolve call (specification
\* SpecGA)
\* ------------------------------------------------------------------------
TaskFitness(t, r) ==
  getFitness(r, taskArgs[t].startId, taskArgs[t].endId, graph,
             taskArgs[t].startCoords, taskArgs[t].endCoords)

\* the fitness values of the routes of a population
FitnessValues(t, routes) == { TaskFitness(t, routes[i]) : i \in 1..Len(routes) }

\* a route of `before` that no route of `before` is fitter than is a route
\* of `after`, so that the best fitness of `after` is not below that of
\* `before`
BestCopied(t, before, after) ==
  LET values == FitnessValues(t, before)
  IN  \E j \in 1..Len(after) :
        /\ InSeq(after[j], before)
        /\ \A f \in values : ~FitnessGreater(f, TaskFitness(t, after[j]))

GenerationKeepsBest ==
  \A t \in Tasks :
    (taskPc[t] = "seeded" /\ taskPc'[t] = "seeded" /\ taskRoutes'[t] # taskRoutes[t]) =>
      BestCopied(t, taskRoutes[t], taskRoutes'[t])

\* C26: from one generation of an evolve call to the next the maximum
\* fitness of the population never decreases, and a route of maximal fitness
\* of the old generation is a route of the new one.
C26_BestNeverDecreases == [][GenerationKeepsBest]_vars

\* after two generations the population holds a route less fit than its best
C26_Witness ==
  /\ taskPc[1] = "seeded"
  /\ taskGen[1] = 2
  /\ \E i, j \in 1..Len(taskRoutes[1]) :
       FitnessGreater(TaskFitness(1, taskRoutes[1][i]), TaskFitness(1, taskRoutes[1][j]))

\* ------------------------------------------------------------------------
\* A constructed population is never empty (specification SpecGA)
\* ------------------------------------------------------------------------
\* the constructor of the task's population returned without throwing
PopulationConstructed(t) ==
  \/ taskPc[t] = "seeded"
  \/ taskPc[t] = "done" /\ taskTarget[t] > 0

\* C27: a population whose constructor returned holds at least one route
\* after every generation of evolve, for every mutation rate, so that
\* getBestSolution does not throw; the population never shrinks below its
\* first route.
C27_NeverExtinct ==
  \A t \in Tasks : PopulationConstructed(t) => taskRoutes[t] # << >>

\* a task ran every generation at mutation rate 1 and returned the best
\* route of a population that still holds a route
C27_Witness ==
  /\ taskPc[1] = "done"
  /\ taskArgs[1].mutationRate = 100
  /\ taskArgs[1].generations = MaxGenerations
  /\ taskGen[1] = MaxGenerations
  /\ taskRoutes[1] # << >>
  /\ taskResult[1].route =
       getBestSolution(taskRoutes[1], taskArgs[1].startId, taskArgs[1].endId, graph,
                       taskArgs[1].startCoords, taskArgs[1].endCoords)

\* ------------------------------------------------------------------------
\* Valid routes under mutate and crossover (specification SpecOperators)
\* ------------------------------------------------------------------------
ValidForCall(stations) ==
  isValid(stations, fnCall.startId, fnCall.destinationId, graph)

\* C28: mutate applied to a route that is valid for (start, destination,
\* graph) leaves a route that is valid for them and has the same first step,
\* whether it did nothing, regenerated the tail or replaced a segment by a
\* Walk step; crossover of two routes valid for them returns a route valid
\* for them.
C28_ValidityClosed ==
  /\ (fnResult.fn = "mutate" /\ ValidForCall(fnCall.stations)) =>
       /\ ValidForCall(fnResult.value)
       /\ fnResult.value[1] = fnCall.stations[1]
  /\ (fnResult.fn = "crossover" /\ ValidForCall(fnCall.parent1)
        /\ ValidForCall(fnCall.parent2)) =>
       \A child \in fnResult.outcomes : ValidForCall(child)

\* mutate replaced a segment of a valid route by a Walk step
C28_Witness ==
  /\ fnResult.fn = "mutate"
  /\ ValidForCall(fnCall.stations)
  /\ Len(fnResult.value) < Len(fnCall.stations)
  /\ \E i \in 2..Len(fnResult.value) :
       /\ fnResult.value[i].line.id = "Walk"
       /\ fnCall.stations[i].line.id # "Walk"
       /\ fnResult.value[i].prev # fnResult.value[i - 1].station

\* ------------------------------------------------------------------------
\* The direct walk and its length (specification Spec)
\* ------------------------------------------------------------------------
\* the request is a route request whose two coordinates were read
RouteRequestAnswered ==
  /\ hrPc = "returned"
  /\ request.raw = "json"
  /\ request.type = 2
  /\ request.hasCoords
  /\ request.typed

DirectWalkDistance == calculateHaversineDistance(request.startCoords, request.endCoords)

\* C29: "Direct walk recommended" is answered only when the direct walk is
\* shorter than 2 km (20 hm); a route request whose direct walk is 2 km or
\* longer is answered with an error, with "No route found (and direct walk
\* too long)" or with "Route found".
C29_DirectWalkShort ==
  RouteRequestAnswered =>
    /\ response.status = "Direct walk recommended" => DirectWalkDistance < 20
    /\ DirectWalkDistance >= 20 =>
         \/ response.error # ""
         \/ response.status = "No route found (and direct walk too long)"
         \/ response.status = "Route found"

\* the search found no route for a request whose direct walk is 2 km or
\* longer
C29_Witness ==
  /\ RouteRequestAnswered
  /\ DirectWalkDistance >= 20
  /\ futures # << >>
  /\ response.status = "No route found (and direct walk too long)"

\* ------------------------------------------------------------------------
\* The end station of a "Route found" response (specification Spec)
\* ------------------------------------------------------------------------
\* the stations within 0.6 km (6 hm) of the destination coordinates
EndCandidates ==
  { id \in DOMAIN graph :
      calculateHaversineDistance(graph[id].pos, request.endCoords) <= 6 }

DestinationDistance(id) == calculateHaversineDistance(graph[id].pos, request.endCoords)

\* C30: the end station of every "Route found" response is a station within
\* 0.6 km of the destination coordinates and no such station is closer to
\* them, so the final walk is at most 0.6 km and the warning of a long final
\* walk (more than 1.5 km) is never attached.
C30_EndStationClosest ==
  (hrPc = "returned" /\ response.status = "Route found") =>
    /\ response.to_station \in EndCandidates
    /\ \A id \in EndCandidates :
         DestinationDistance(response.to_station) <= DestinationDistance(id)
    /\ DestinationDistance(response.to_station) <= 6
    /\ ~response.warning

\* a route was found to the closest of several stations near the destination
C30_Witness ==
  /\ hrPc = "returned"
  /\ response.status = "Route found"
  /\ \E id \in EndCandidates :
       DestinationDistance(response.to_station) < DestinationDistance(id)

====
